---- MODULE Spec2Model ----
(***************************************************************************)
(* Valuation and conversion engine of the portfolio tracker backend:       *)
(*   - the exchange-rate cache and converter (utils/currencyConverter.js), *)
(*   - the portfolio valuation and its summary (routes/portfolio.js),      *)
(*   - the dividend estimator and dividend summary (routes/dividends.js).  *)
(*                                                                         *)
(* Number representation.  JavaScript numbers are modelled in fixed point: *)
(*   money amounts in 1/100 (cents), exchange rates in 1/100,              *)
(*   share counts in 1/10, per-share dividend figures in 1/100000,         *)
(*   percentages in 1/100 of a percent.                                    *)
(* toFixed(k) is modelled as exact decimal rounding, halves away from      *)
(* zero; binary floating point representation error is not modelled.       *)
(* A JavaScript value that may be undefined is the record Num(v) or        *)
(* Undefined.                                                              *)
(***************************************************************************)
EXTENDS Integers, Sequences, FiniteSets, TLC

VARIABLES
    exchangeRateCache,  \* currencyConverter.js: { rates, lastUpdate }
    now,                \* Date.now(), in ms
    calls,              \* the getExchangeRate invocations in progress
    storedAt,           \* history: when rates[c] was last written
    lastFetch,          \* history, for the currencies in its domain: the
                        \* timestamp and the outcome of the request that
                        \* last wrote rates[c]
    requests,           \* history: number of exchange-rate requests issued
    val,                \* one valuation request (routes/portfolio.js)
    div,                \* one dividends-route request: an estimator call or
                        \* a GET /summary with the Dividend collection
    db,                 \* the Portfolio, Transaction and Cash collections
    reqs,               \* the portfolio-route requests in progress
    proc,               \* the server process (index.js): signals, shutdown
    conv                \* one convertToDKK call of utils/currencyConverter.js

vars == <<exchangeRateCache, now, calls, storedAt, lastFetch, requests, val,
          div, db, reqs, proc, conv>>

fxVars == <<exchangeRateCache, now, calls, storedAt, lastFetch, requests>>

appVars == <<db, reqs, proc, conv>>

-----------------------------------------------------------------------------
(* JavaScript values and arithmetic *)

Num(v) == [t |-> "number", v |-> v]

Undefined == [t |-> "undefined", v |-> 0]

\* ToBoolean of a number-or-undefined: undefined and 0 are falsy
Truthy(x) == x.t = "number" /\ x.v # 0

\* a || b
OrElse(a, b) == IF Truthy(a) THEN a ELSE b

\* table[key] on an object literal: undefined when the key is absent
Lookup(table, key) == IF key \in DOMAIN table THEN Num(table[key]) ELSE Undefined

Abs(n) == IF n < 0 THEN -n ELSE n

\* num/den rounded to the nearest integer, halves away from zero (den > 0)
RoundDiv(num, den) ==
    LET q == Abs(num) \div den
        r == Abs(num) % den
        m == IF 2 * r >= den THEN q + 1 ELSE q
    IN  IF num < 0 THEN -m ELSE m

\* (num * 10000) / den rounded as by RoundDiv, computed two digits at a time
\* so that no intermediate value leaves the 32-bit integers of the checker
RoundDiv10000(num, den) ==
    LET q0 == Abs(num) \div den
        r0 == Abs(num) % den
        q1 == (r0 * 100) \div den
        r1 == (r0 * 100) % den
        m == q0 * 10000 + q1 * 100 + RoundDiv(r1 * 100, den)
    IN  IF num < 0 THEN -m ELSE m

-----------------------------------------------------------------------------
(* utils/currencyConverter.js *)

CACHE_DURATION == 3600000

FALLBACK_RATES ==
    [c \in {"DKK", "USD", "EUR", "GBP", "SEK", "NOK", "CHF"} |->
        CASE c = "DKK" -> 100
          [] c = "USD" -> 680
          [] c = "EUR" -> 750
          [] c = "GBP" -> 850
          [] c = "SEK" -> 65
          [] c = "NOK" -> 65
          [] c = "CHF" -> 760]

\* Bounds of the exchange-rate model
StartTime == 7200000
TickMs == 1800000
MaxTicks == 3
MaxRequests == 4

Callers == {1, 2}

\* the callers of the sequential specification: one call at a time
SeqCallers == {1}

\* "" stands for a missing currency argument, JPY for a code outside the table
FxCurrencies == {"", "DKK", "USD", "EUR", "JPY"}

\* response.data.rate of a 2xx answer: absent, zero, negative or positive
LiveRate == 650
PayloadRates == {Undefined, Num(0), Num(-LiveRate), Num(LiveRate)}

\* what the provider does with one request
ProviderOutcomes ==
    [kind : {"ok"}, rate : PayloadRates]
        \cup [kind : {"nodata", "timeout", "neterr"}, rate : {Undefined}]

IdleCall ==
    [pc |-> "idle", cur |-> "", now |-> 0, result |-> Undefined,
     fetched |-> FALSE, outcome |-> "none", threw |-> FALSE, age |-> 0]

EmptyCache == [rates |-> [c \in FxCurrencies |-> Undefined], lastUpdate |-> 0]

\* no request has written rates[c] since the cache was created or cleared
NoFetch == [stamp |-> 0, outcome |-> "none"]

\* line 41: the cache test
CacheFresh(cache, t, c) ==
    cache.lastUpdate > t - CACHE_DURATION /\ Truthy(cache.rates[c])

\* lines 52 and 63: the value that is stored and returned after the request
FetchedRate(c, out) ==
    IF out.kind = "ok"
    THEN OrElse(out.rate, Lookup(FALLBACK_RATES, c))
    ELSE OrElse(Lookup(FALLBACK_RATES, c), Num(100))

\* an update that writes the rate and leaves the timestamp as it was
StoreRate_staleStamp(cache, c, rate, t) ==
    [rates |-> [cache.rates EXCEPT ![c] = rate],
     lastUpdate |-> cache.lastUpdate]

\* lines 55-56 and 64-65: in-place update of the shared cache object
StoreRate(cache, c, rate, t) ==
    [rates |-> [cache.rates EXCEPT ![c] = rate], lastUpdate |-> t]

\* how the model names the outcome of a completed request
OutcomeName(out) ==
    IF out.kind # "ok" THEN out.kind
    ELSE IF out.rate.t = "undefined" THEN "missing"
    ELSE IF out.rate.v = 0 THEN "zero"
    ELSE IF out.rate.v < 0 THEN "negative"
    ELSE "live"

\* getExchangeRate, lines 35-50: up to the await of the provider request
GetExchangeRateBegin(p, c) ==
    /\ calls[p].pc = "idle"
    /\ IF c = "" \/ c = "DKK"
       THEN /\ calls' = [calls EXCEPT ![p] =
                   [IdleCall EXCEPT !.pc = "done", !.cur = c, !.now = now,
                                    !.result = Num(100), !.outcome = "base"]]
            /\ UNCHANGED requests
       ELSE IF CacheFresh(exchangeRateCache, now, c)
       THEN /\ calls' = [calls EXCEPT ![p] =
                   [IdleCall EXCEPT !.pc = "done", !.cur = c, !.now = now,
                                    !.result = exchangeRateCache.rates[c],
                                    !.outcome = "hit",
                                    !.age = now - storedAt[c]]]
            /\ UNCHANGED requests
       ELSE /\ requests < MaxRequests
            /\ calls' = [calls EXCEPT ![p] =
                   [IdleCall EXCEPT !.pc = "await", !.cur = c, !.now = now,
                                    !.fetched = TRUE]]
            /\ requests' = requests + 1
    /\ UNCHANGED <<exchangeRateCache, now, storedAt, lastFetch, val, div,
                   appVars>>

\* getExchangeRate, lines 52-68: the request settles
GetExchangeRateEnd(p, out) ==
    /\ calls[p].pc = "await"
    /\ LET c == calls[p].cur
           rate == FetchedRate(c, out)
       IN  /\ exchangeRateCache' =
                  StoreRate(exchangeRateCache, c, rate, calls[p].now)
           /\ storedAt' = [storedAt EXCEPT ![c] = now]
           /\ lastFetch' =
                  IF c \in DOMAIN lastFetch
                  THEN [lastFetch EXCEPT ![c] =
                           [stamp |-> calls[p].now,
                            outcome |-> OutcomeName(out)]]
                  ELSE lastFetch
           /\ calls' = [calls EXCEPT ![p] =
                  [@ EXCEPT !.pc = "done", !.result = rate,
                            !.outcome = OutcomeName(out)]]
    /\ UNCHANGED <<now, requests, val, div, appVars>>

\* the caller takes the result; the slot is free for the next call
Return(p) ==
    /\ calls[p].pc = "done"
    /\ calls' = [calls EXCEPT ![p] = IdleCall]
    /\ UNCHANGED <<exchangeRateCache, now, storedAt, lastFetch, requests, val,
                   div, appVars>>

\* clearCache, lines 118-123
clearCache ==
    /\ exchangeRateCache' = EmptyCache
    /\ storedAt' = [c \in FxCurrencies |-> 0]
    /\ lastFetch' = [c \in DOMAIN lastFetch |-> NoFetch]
    /\ UNCHANGED <<now, calls, requests, val, div, appVars>>

\* time passes
Tick ==
    /\ now < StartTime + MaxTicks * TickMs
    /\ now' = now + TickMs
    /\ UNCHANGED <<exchangeRateCache, calls, storedAt, lastFetch, requests,
                   val, div, appVars>>

(* convertToDKK of utils/currencyConverter.js, lines 77-82.  Amounts are in
   1/1000, the result in 1/100 DKK. *)

\* the amount argument: missing, 0, -5, 12.344, 12.346
ConvAmounts == {Undefined, Num(0), Num(-5000), Num(12344), Num(12346)}

IdleConv == [pc |-> "idle", amount |-> Undefined, cur |-> "",
             result |-> Undefined]

\* a guard that lets a missing or zero amount through
NothingToConvert_negativeOnly(amount) == Truthy(amount) /\ amount.v < 0

\* line 78: !amount || amount < 0
NothingToConvert(amount) == ~Truthy(amount) \/ amount.v < 0

\* the product cut off after 2 decimals
ConvertResult_truncated(amount, rate) ==
    IF rate.t = "number" THEN Num((amount.v * rate.v) \div 1000)
    ELSE [t |-> "NaN", v |-> 0]

\* line 81: parseFloat((amount * rate).toFixed(2)); NaN for an undefined rate
ConvertResult(amount, rate) ==
    IF rate.t = "number" THEN Num(RoundDiv(amount.v * rate.v, 1000))
    ELSE [t |-> "NaN", v |-> 0]

\* convertToDKK, lines 77-80: up to the call of getExchangeRate
ConvertToDKKBegin(amount, c) ==
    /\ conv.pc = "idle"
    /\ conv' = IF NothingToConvert(amount)
               THEN [pc |-> "done", amount |-> amount, cur |-> c,
                     result |-> Num(0)]
               ELSE [pc |-> "calling", amount |-> amount, cur |-> c,
                     result |-> Undefined]
    /\ UNCHANGED <<fxVars, val, div, db, reqs, proc>>

\* line 80: the getExchangeRate call of the conversion starts
ConvertToDKKCall(p) ==
    /\ conv.pc = "calling"
    /\ GetExchangeRateBegin(p, conv.cur)

\* line 81: getExchangeRate has returned
ConvertToDKKEnd(p) ==
    /\ conv.pc = "calling"
    /\ calls[p].pc = "done"
    /\ conv' = [conv EXCEPT !.pc = "done",
                            !.result = ConvertResult(conv.amount,
                                                     calls[p].result)]
    /\ calls' = [calls EXCEPT ![p] = IdleCall]
    /\ UNCHANGED <<exchangeRateCache, now, storedAt, lastFetch, requests, val,
                   div, db, reqs, proc>>

\* the caller takes the converted amount
ConvertReturn ==
    /\ conv.pc = "done"
    /\ conv' = IdleConv
    /\ UNCHANGED <<fxVars, val, div, db, reqs, proc>>

InitConv ==
    /\ exchangeRateCache = EmptyCache
    /\ now = StartTime
    /\ calls = [p \in Callers |-> IdleCall]
    /\ storedAt = [c \in FxCurrencies |-> 0]
    /\ lastFetch = <<>>
    /\ requests = 0
    /\ val = [pc |-> "off"]
    /\ div = [pc |-> "off"]
    /\ db = [pc |-> "off"]
    /\ reqs = <<>>
    /\ proc = [pc |-> "off"]
    /\ conv = IdleConv

NextConv ==
    \/ \E amount \in ConvAmounts, c \in FxCurrencies :
           ConvertToDKKBegin(amount, c)
    \/ \E p \in SeqCallers : ConvertToDKKCall(p)
    \/ \E p \in SeqCallers, out \in ProviderOutcomes :
           GetExchangeRateEnd(p, out)
    \/ \E p \in SeqCallers : ConvertToDKKEnd(p)
    \/ ConvertReturn
    \/ clearCache
    \/ Tick

SpecConv == InitConv /\ [][NextConv]_vars

IdleVal == [pc |-> "off"]

IdleDiv == [pc |-> "off"]

IdleApp ==
    /\ db = [pc |-> "off"]
    /\ reqs = <<>>
    /\ proc = [pc |-> "off"]
    /\ conv = [pc |-> "off"]

InitFx ==
    /\ exchangeRateCache = EmptyCache
    /\ now = StartTime
    /\ calls = [p \in Callers |-> IdleCall]
    /\ storedAt = [c \in FxCurrencies |-> 0]
    /\ lastFetch = <<>>
    /\ requests = 0
    /\ val = IdleVal
    /\ IdleApp
    /\ div = IdleDiv

NextFx ==
    \/ \E p \in SeqCallers, c \in FxCurrencies : GetExchangeRateBegin(p, c)
    \/ \E p \in SeqCallers, out \in ProviderOutcomes : GetExchangeRateEnd(p, out)
    \/ \E p \in SeqCallers : Return(p)
    \/ clearCache
    \/ Tick

SpecFx == InitFx /\ [][NextFx]_vars

\* the currencies whose requests are recorded in lastFetch
LoggedCurrencies == {"USD", "JPY"}

InitFxLog ==
    /\ exchangeRateCache = EmptyCache
    /\ now = StartTime
    /\ calls = [p \in Callers |-> IdleCall]
    /\ storedAt = [c \in FxCurrencies |-> 0]
    /\ lastFetch = [c \in LoggedCurrencies |-> NoFetch]
    /\ requests = 0
    /\ val = IdleVal
    /\ IdleApp
    /\ div = IdleDiv

\* one getExchangeRate call at a time, with the requests recorded
SpecFxLog == InitFxLog /\ [][NextFx]_vars

\* the rate the provider holds for a currency: the request of line 47 names
\* the currency, and the answer is the rate of that currency
LiveRateOf(c) ==
    CASE c = "USD" -> LiveRate
      [] c = "EUR" -> LiveRate + 95
      [] OTHER -> 5

\* what the provider does with a request for c: it answers with the rate,
\* answers without a rate, or does not answer within the timeout
RaceOutcomes(c) ==
    {[kind |-> "ok", rate |-> Num(LiveRateOf(c))],
     [kind |-> "ok", rate |-> Undefined],
     [kind |-> "timeout", rate |-> Undefined]}

\* the currencies the concurrent callers ask for: the base currency, one of
\* the table and one outside it
RaceCurrencies == {"DKK", "USD", "JPY"}

\* the request of p settles with an answer for the currency it named
RequestSettles(p) ==
    \E out \in RaceOutcomes(calls[p].cur) : GetExchangeRateEnd(p, out)

\* getExchangeRate calls of two callers interleaved at their awaits, with
\* clearCache between any two steps
NextFxRace ==
    \/ \E p \in Callers, c \in RaceCurrencies : GetExchangeRateBegin(p, c)
    \/ \E p \in Callers : RequestSettles(p)
    \/ \E p \in Callers : Return(p)
    \/ clearCache
    \/ Tick

SpecFxRace == InitFx /\ [][NextFxRace]_vars

-----------------------------------------------------------------------------
(* Claims about the exchange-rate cache, checked under SpecFx *)

\* C1: every completed getExchangeRate call, for every currency code and
\* every provider outcome, has returned a number strictly greater than 0.
C1_RateAlwaysPositive ==
    \A p \in Callers :
        calls[p].pc = "done" =>
            calls[p].result.t = "number" /\ calls[p].result.v > 0

\* C2: a rate for currency C that is returned from the cache without a
\* request was stored for C less than CACHE_DURATION before the call, also
\* when another currency was refreshed more recently.
C2_CacheHitYoungerThanTTL ==
    \A p \in Callers :
        (calls[p].pc = "done" /\ calls[p].outcome = "hit") =>
            calls[p].age < CACHE_DURATION

\* the static value the claim expects for C: its table entry, and for a code
\* outside the table the default of line 63
StaticFallback(c) == OrElse(Lookup(FALLBACK_RATES, c), Num(100))

FailedOutcomes == {"timeout", "neterr", "nodata", "missing"}

\* C3: when the request for C fails (timeout, network error, or a malformed
\* response: no body or no rate in it), getExchangeRate does not throw and
\* returns the static fallback value for C.
C3_FailedFetchGivesFallback ==
    \A p \in Callers :
        (calls[p].pc = "done" /\ calls[p].outcome \in FailedOutcomes) =>
            /\ ~calls[p].threw
            /\ calls[p].result = StaticFallback(calls[p].cur)

-----------------------------------------------------------------------------
(* routes/portfolio.js: valuation of the holdings *)

\* Bounds of the valuation model
MaxHoldings == 2

ValTickers == {"AAPL", "VOLV.ST"}

\* "" stands for a holding stored without a currency
ValCurrencies == {"USD", ""}

ShareCounts == {5, 100}      \* 0.5 and 10 shares, in 1/10
BuyPrices == {0, 300, 10000} \* 0 (the schema admits it), 3.00, 100.00: cents
\* the quotes the provider may give for a ticker, in cents
QuotePrices == [t \in ValTickers |-> IF t = "AAPL" THEN {11000} ELSE {400}]

Holdings ==
    [ticker : ValTickers, shares : ShareCounts, buyPrice : BuyPrices,
     currency : ValCurrencies]

SeqsUpTo(S, n) == UNION {[1..k -> S] : k \in 0..n}

\* the provider's answer to POST /api/batch-price: a body mapping tickers to
\* quotes (a ticker may be absent), no body at all, or a failed request
BatchResponses ==
    [kind : {"ok"},
     prices : {f \in [ValTickers -> {Undefined} \cup {Num(400), Num(11000)}] :
                  \A t \in ValTickers :
                      f[t] = Undefined \/ f[t].v \in QuotePrices[t]}]
        \cup [kind : {"nodata", "fail"}, prices : {[t \in ValTickers |-> Undefined]}]

\* the rates getExchangeRate returns to the conversions of one request
RateTables == {[c \in {"USD", "SEK"} |-> IF c = "USD" THEN u ELSE 65] : u \in {650, 680}}

\* ticker.includes(s)
Includes(ticker, s) ==
    \E i \in 1..Len(ticker) :
        /\ i + Len(s) - 1 <= Len(ticker)
        /\ SubSeq(ticker, i, i + Len(s) - 1) = s

\* getCurrencyFromTicker, lines 377-384
getCurrencyFromTicker(ticker) ==
    IF Includes(ticker, ".CO") THEN "DKK"
    ELSE IF Includes(ticker, ".ST") THEN "SEK"
    ELSE IF Includes(ticker, ".OL") THEN "NOK"
    ELSE IF Includes(ticker, ".HE") THEN "EUR"
    ELSE IF Includes(ticker, ".SW") THEN "CHF"
    ELSE "USD"

\* the value getExchangeRate(c) resolves to during the request
RateOf(fx, c) == IF c = "" \/ c = "DKK" THEN 100 ELSE fx[c]

\* convertToDKK, currencyConverter.js lines 77-82; amount and result in cents
convertToDKK(amount, c, fx) ==
    IF amount <= 0 THEN 0 ELSE RoundDiv(amount * RateOf(fx, c), 100)

\* a quote that defaults to 1.00 instead of 0
QuotePrice_one(prices, ticker) == OrElse(prices[ticker], Num(100)).v

\* priceData[stock.ticker]?.price || 0
QuotePrice(prices, ticker) == OrElse(prices[ticker], Num(0)).v

\* the gain as a fraction of the cost, not as a percentage
GainPercent_fraction(gain, cost) ==
    IF cost > 0 THEN RoundDiv(gain * 100, cost) ELSE 0

\* cost > 0 ? ((gain / cost) * 100).toFixed(2) : 0, in 1/100 of a percent
GainPercent(gain, cost) ==
    IF cost > 0 THEN RoundDiv10000(gain, cost) ELSE 0

\* price * shares with the price in cents and the shares in 1/10: 1/1000
Times(price, shares) == price * shares

\* x.toFixed(2) of an amount in 1/1000, in cents
ToCents(x) == RoundDiv(x, 10)

\* enrichPortfolioWithPrices, lines 39-65: one position, provider answered
EnrichStockV1(stock, prices, fx) ==
    LET currentPrice == QuotePrice(prices, stock.ticker)
        buyPriceDKK == convertToDKK(stock.buyPrice, stock.currency, fx)
        currentPriceDKK == convertToDKK(currentPrice, stock.currency, fx)
        cost == Times(buyPriceDKK, stock.shares)
        currentValue == Times(currentPriceDKK, stock.shares)
        gain == currentValue - cost
    IN  [ticker |-> stock.ticker, shares |-> stock.shares,
         buyPrice |-> stock.buyPrice, currency |-> stock.currency,
         originalPrice |-> currentPrice,
         originalBuyPrice |-> stock.buyPrice,
         originalCurrency |-> stock.currency,
         currentPriceDKK |-> currentPriceDKK,
         buyPriceDKK |-> buyPriceDKK,
         costDKK |-> ToCents(cost),
         currentValueDKK |-> ToCents(currentValue),
         gainDKK |-> ToCents(gain),
         gainPercent |-> GainPercent(gain, cost)]

\* enrichPortfolioWithPrices, lines 69-84: one position, request failed
FallbackStockV1(stock, fx) ==
    LET buyPriceDKK == convertToDKK(stock.buyPrice, stock.currency, fx)
    IN  [ticker |-> stock.ticker, shares |-> stock.shares,
         buyPrice |-> stock.buyPrice, currency |-> stock.currency,
         originalPrice |-> stock.buyPrice,
         originalBuyPrice |-> stock.buyPrice,
         originalCurrency |-> stock.currency,
         currentPriceDKK |-> buyPriceDKK,
         buyPriceDKK |-> buyPriceDKK,
         costDKK |-> ToCents(Times(buyPriceDKK, stock.shares)),
         currentValueDKK |-> ToCents(Times(buyPriceDKK, stock.shares)),
         gainDKK |-> 0,
         gainPercent |-> 0]

\* enrichPortfolioWithPrices, lines 29-86
enrichPortfolioWithPricesV1(stocks, batch, fx) ==
    IF batch.kind = "ok"
    THEN [i \in 1..Len(stocks) |-> EnrichStockV1(stocks[i], batch.prices, fx)]
    ELSE [i \in 1..Len(stocks) |-> FallbackStockV1(stocks[i], fx)]

\* enrichPortfolioWithPrices, lines 395-419: one position, provider answered.
\* This version does not round currentValue in every path (line 426), so
\* its currentValue field is kept in 1/1000
EnrichStock(stock, prices, fx) ==
    LET priceInStockCurrency == QuotePrice(prices, stock.ticker)
        stockCurrency == getCurrencyFromTicker(stock.ticker)
        currentPriceDKK == convertToDKK(priceInStockCurrency, stockCurrency, fx)
        buyPriceDKK ==
            convertToDKK(stock.buyPrice,
                         IF stock.currency # "" THEN stock.currency
                                                ELSE stockCurrency, fx)
        cost == Times(buyPriceDKK, stock.shares)
        currentValue == Times(currentPriceDKK, stock.shares)
        gain == currentValue - cost
    IN  [ticker |-> stock.ticker, shares |-> stock.shares,
         buyPrice |-> stock.buyPrice,
         currentPrice |-> currentPriceDKK,
         currentValue |-> 10 * ToCents(currentValue),
         gain |-> ToCents(gain),
         gainPercent |-> GainPercent(gain, cost),
         currency |-> "DKK",
         stockNativeCurrency |-> stockCurrency]

\* enrichPortfolioWithPrices, lines 423-430: one position, request failed
FallbackStock(stock) ==
    [ticker |-> stock.ticker, shares |-> stock.shares,
     buyPrice |-> stock.buyPrice,
     currentPrice |-> stock.buyPrice,
     currentValue |-> Times(stock.buyPrice, stock.shares),
     gain |-> 0,
     gainPercent |-> 0,
     currency |-> "DKK"]

\* enrichPortfolioWithPrices, lines 387-432
enrichPortfolioWithPrices(stocks, batch, fx) ==
    IF batch.kind = "ok"
    THEN [i \in 1..Len(stocks) |-> EnrichStock(stocks[i], batch.prices, fx)]
    ELSE [i \in 1..Len(stocks) |-> FallbackStock(stocks[i])]



ReadyVal(stocks, batch, fx) ==
    [pc |-> "ready", stocks |-> stocks, batch |-> batch, fx |-> fx]

\* GET /, lines 89-97
GetPortfolioV1 ==
    /\ val.pc = "ready"
    /\ val' = [pc |-> "done", version |-> 1, route |-> "list",
               stocks |-> val.stocks, batch |-> val.batch, fx |-> val.fx,
               status |-> 200,
               body |-> enrichPortfolioWithPricesV1(val.stocks, val.batch, val.fx)]
    /\ UNCHANGED <<fxVars, div, appVars>>

\* GET /, lines 435-443
GetPortfolio ==
    /\ val.pc = "ready"
    /\ val' = [pc |-> "done", version |-> 2, route |-> "list",
               stocks |-> val.stocks, batch |-> val.batch, fx |-> val.fx,
               status |-> 200,
               body |-> enrichPortfolioWithPrices(val.stocks, val.batch, val.fx)]
    /\ UNCHANGED <<fxVars, div, appVars>>

NaN == [t |-> "NaN", v |-> 0]

RECURSIVE TotalCost(_, _)
\* enriched.reduce((sum, stock) => sum + stock.buyPrice * stock.shares, 0),
\* over the first n elements
TotalCost(enriched, n) ==
    IF n = 0 THEN 0
    ELSE TotalCost(enriched, n - 1)
             + Times(enriched[n].buyPrice, enriched[n].shares)

RECURSIVE TotalValue(_, _)
\* enriched.reduce((sum, stock) => sum + stock.currentValue, 0)
TotalValue(enriched, n) ==
    IF n = 0 THEN 0
    ELSE TotalValue(enriched, n - 1) + enriched[n].currentValue

\* GET /summary, lines 105-123 and 451-469 (the same text): the totals of
\* the enriched list.  stock.currentValue is undefined on the records of
\* lines 51-64, and a sum with undefined is NaN
Summary(enriched) ==
    LET n == Len(enriched)
        totalCost == TotalCost(enriched, n)
        totalValue == TotalValue(enriched, n)
        totalGain == totalValue - totalCost
    IN  IF \A i \in 1..n : "currentValue" \in DOMAIN enriched[i]
        THEN [totalCost |-> Num(ToCents(totalCost)),
              totalValue |-> Num(ToCents(totalValue)),
              totalGain |-> Num(ToCents(totalGain)),
              gainPercent |-> Num(GainPercent(totalGain, totalCost)),
              holdingsCount |-> n]
        ELSE [totalCost |-> Num(ToCents(totalCost)),
              totalValue |-> NaN,
              totalGain |-> NaN,
              gainPercent |-> IF totalCost > 0 THEN NaN ELSE Num(0),
              holdingsCount |-> n]

\* GET /summary, lines 100-127
GetSummaryV1 ==
    /\ val.pc = "ready"
    /\ LET enriched == enrichPortfolioWithPricesV1(val.stocks, val.batch, val.fx)
       IN  val' = [pc |-> "done", version |-> 1, route |-> "summary",
                   stocks |-> val.stocks, batch |-> val.batch, fx |-> val.fx,
                   status |-> 200, body |-> enriched,
                   summary |-> Summary(enriched)]
    /\ UNCHANGED <<fxVars, div, appVars>>

\* GET /summary, lines 446-473
GetSummary ==
    /\ val.pc = "ready"
    /\ LET enriched == enrichPortfolioWithPrices(val.stocks, val.batch, val.fx)
       IN  val' = [pc |-> "done", version |-> 2, route |-> "summary",
                   stocks |-> val.stocks, batch |-> val.batch, fx |-> val.fx,
                   status |-> 200, body |-> enriched,
                   summary |-> Summary(enriched)]
    /\ UNCHANGED <<fxVars, div, appVars>>

\* ((item.value / totalValue) * 100).toFixed(2) in 1/100 of a percent,
\* computed one digit at a time
Percentage(value, totalValue) ==
    LET q0 == value \div totalValue
        r0 == value % totalValue
        d1 == (r0 * 10) \div totalValue
        r1 == (r0 * 10) % totalValue
        d2 == (r1 * 10) \div totalValue
        r2 == (r1 * 10) % totalValue
        d3 == (r2 * 10) \div totalValue
        r3 == (r2 * 10) % totalValue
    IN  q0 * 10000 + d1 * 1000 + d2 * 100 + d3 * 10
            + RoundDiv(r3 * 10, totalValue)

RECURSIVE InsertByPercentage(_, _)
\* item placed behind every item of the same or a higher percentage
InsertByPercentage(sorted, item) ==
    IF sorted = <<>> THEN <<item>>
    ELSE IF Head(sorted).percentage >= item.percentage
    THEN <<Head(sorted)>> \o InsertByPercentage(Tail(sorted), item)
    ELSE <<item>> \o sorted

RECURSIVE SortByPercentage(_)
\* allocation.sort((a, b) => b.percentage - a.percentage), lines 330 and
\* 690: highest first, equal percentages in their former order
SortByPercentage(list) ==
    IF list = <<>> THEN <<>>
    ELSE InsertByPercentage(SortByPercentage(SubSeq(list, 1, Len(list) - 1)),
                            list[Len(list)])

\* lines 315-330 and 675-690 (the same text): the allocation of the enriched
\* list.  stock.currentValue is undefined on the records of lines 51-64, the
\* sum is then NaN and NaN > 0 is false.  holding is the position of the
\* item before the sort
Allocation(enriched) ==
    LET n == Len(enriched)
        valued == \A i \in 1..n : "currentValue" \in DOMAIN enriched[i]
        totalValue == IF valued THEN TotalValue(enriched, n) ELSE 0
        allocation ==
            [i \in 1..n |->
                [holding |-> i,
                 ticker |-> enriched[i].ticker,
                 value |-> IF valued THEN Num(enriched[i].currentValue)
                                     ELSE Undefined,
                 shares |-> enriched[i].shares,
                 buyPrice |-> enriched[i].buyPrice,
                 percentage |->
                     IF valued /\ totalValue > 0
                     THEN Percentage(enriched[i].currentValue, totalValue)
                     ELSE 0]]
    IN  SortByPercentage(allocation)

\* GET /allocation, lines 310-334
GetAllocationV1 ==
    /\ val.pc = "ready"
    /\ LET enriched == enrichPortfolioWithPricesV1(val.stocks, val.batch, val.fx)
       IN  val' = [pc |-> "done", version |-> 1, route |-> "allocation",
                   stocks |-> val.stocks, batch |-> val.batch, fx |-> val.fx,
                   status |-> 200, body |-> enriched,
                   allocation |-> Allocation(enriched)]
    /\ UNCHANGED <<fxVars, div, appVars>>

\* GET /allocation, lines 670-694
GetAllocation ==
    /\ val.pc = "ready"
    /\ LET enriched == enrichPortfolioWithPrices(val.stocks, val.batch, val.fx)
       IN  val' = [pc |-> "done", version |-> 2, route |-> "allocation",
                   stocks |-> val.stocks, batch |-> val.batch, fx |-> val.fx,
                   status |-> 200, body |-> enriched,
                   allocation |-> Allocation(enriched)]
    /\ UNCHANGED <<fxVars, div, appVars>>

InitVal ==
    /\ exchangeRateCache = EmptyCache
    /\ now = StartTime
    /\ calls = [p \in Callers |-> IdleCall]
    /\ storedAt = [c \in FxCurrencies |-> 0]
    /\ lastFetch = <<>>
    /\ requests = 0
    /\ IdleApp
    /\ div = IdleDiv
    /\ \E stocks \in SeqsUpTo(Holdings, MaxHoldings),
          batch \in BatchResponses, fx \in RateTables :
            val = ReadyVal(stocks, batch, fx)

NextVal ==
    \/ GetPortfolioV1
    \/ GetPortfolio
    \/ GetSummaryV1
    \/ GetSummary
    \/ GetAllocationV1
    \/ GetAllocation

SpecVal == InitVal /\ [][NextVal]_vars

-----------------------------------------------------------------------------
(* Claims about the valuation, checked under SpecVal *)

ValDone == val.pc = "done"

Quoted == val.batch.kind = "ok"

\* the per-share cost basis of holding k in base currency, in cents
CostInBase(k) ==
    IF val.version = 1
    THEN val.body[k].buyPriceDKK
    ELSE convertToDKK(val.stocks[k].buyPrice,
                      IF val.stocks[k].currency # ""
                      THEN val.stocks[k].currency
                      ELSE getCurrencyFromTicker(val.stocks[k].ticker),
                      val.fx)

\* the current price of position k in base currency, in cents
PriceInBase(k) ==
    IF val.version = 1 THEN val.body[k].currentPriceDKK
                       ELSE val.body[k].currentPrice

\* the reported current value of position k, in 1/1000
ReportedValue(k) ==
    IF val.version = 1 THEN 10 * val.body[k].currentValueDKK
                       ELSE val.body[k].currentValue

\* the reported gain of position k, in cents
ReportedGain(k) ==
    IF val.version = 1 THEN val.body[k].gainDKK ELSE val.body[k].gain

IsExample(k) ==
    /\ val.stocks[k] = [ticker |-> "AAPL", shares |-> 100,
                        buyPrice |-> 10000, currency |-> "USD"]
    /\ val.batch.prices["AAPL"] = Num(11000)
    /\ val.fx["USD"] = 650

\* 10 shares bought at 100 USD, quote 110 USD, rate 6.5:
\* cost 6500, value 7150, gain 650, gainPercent 10
ExampleValued(k) ==
    /\ val.version = 1 => val.body[k].costDKK = 650000
    /\ ReportedValue(k) = 7150000
    /\ ReportedGain(k) = 65000
    /\ val.body[k].gainPercent = 1000

\* C4 as stated: for every holding the valuation reports exactly
\* cost = costInBase * shares, value = priceInBase * shares,
\* gain = value - cost, and gainPercent = gain / cost * 100 when cost > 0 and
\* 0 otherwise.
C4_ValuationExact ==
    (ValDone /\ Quoted) =>
        \A k \in 1..Len(val.stocks) :
            LET sh == val.stocks[k].shares
                cpb == CostInBase(k)
                ppb == PriceInBase(k)
            IN  /\ val.version = 1 => 10 * val.body[k].costDKK = cpb * sh
                /\ ReportedValue(k) = ppb * sh
                /\ 10 * ReportedGain(k) = ppb * sh - cpb * sh
                /\ IF cpb * sh > 0
                   THEN val.body[k].gainPercent * cpb = (ppb - cpb) * 10000
                   ELSE val.body[k].gainPercent = 0
                /\ IsExample(k) => ExampleValued(k)

\* C4 amended: the reported figures are those quantities rounded to 2
\* decimals: cost, value and gain are within half a cent of
\* costInBase * shares, priceInBase * shares and their difference, and
\* gainPercent is within 0.005 of gain / cost * 100 when cost > 0 and is 0
\* otherwise; the example gives 6500, 7150, 650 and 10.
C4_ValuationRounded ==
    (ValDone /\ Quoted) =>
        \A k \in 1..Len(val.stocks) :
            LET sh == val.stocks[k].shares
                cpb == CostInBase(k)
                ppb == PriceInBase(k)
            IN  /\ val.version = 1 =>
                       Abs(10 * val.body[k].costDKK - cpb * sh) <= 5
                /\ Abs(ReportedValue(k) - ppb * sh) <= 5
                /\ Abs(10 * ReportedGain(k) - (ppb * sh - cpb * sh)) <= 5
                /\ IF cpb * sh > 0
                   THEN 2 * Abs(val.body[k].gainPercent * cpb
                                    - (ppb - cpb) * 10000) <= cpb
                   ELSE val.body[k].gainPercent = 0
                /\ IsExample(k) => ExampleValued(k)

\* C4 witness: the example holding has been valued next to a holding whose
\* gain percentage is not a whole number of hundredths (3.00 -> 4.00)
C4_Witness ==
    /\ ValDone /\ Quoted /\ Len(val.stocks) = 2
    /\ IsExample(1)
    /\ val.body[1].gainPercent = 1000
    /\ val.stocks[2] = [ticker |-> "VOLV.ST", shares |-> 5,
                        buyPrice |-> 300, currency |-> "USD"]
    /\ val.body[2].gainPercent = 3333

\* the cost of position k in base currency, in cents
PositionCost(k) == ToCents(CostInBase(k) * val.stocks[k].shares)

RECURSIVE SumPositionCost(_)
SumPositionCost(n) ==
    IF n = 0 THEN 0 ELSE SumPositionCost(n - 1) + PositionCost(n)

RECURSIVE SumPositionValue(_)
SumPositionValue(n) ==
    IF n = 0 THEN 0 ELSE SumPositionValue(n - 1) + ToCents(ReportedValue(n))

RECURSIVE SumPositionGain(_)
SumPositionGain(n) ==
    IF n = 0 THEN 0 ELSE SumPositionGain(n - 1) + ReportedGain(n)

\* C5: the summary's totalCost, totalValue and totalGain are the sums of the
\* per-position cost, value and gain in base currency (up to one cent of
\* rounding per position).
C5_SummaryTotalsAreSums ==
    (ValDone /\ val.route = "summary") =>
        LET n == Len(val.stocks)
        IN  /\ val.summary.totalCost.t = "number"
            /\ val.summary.totalValue.t = "number"
            /\ val.summary.totalGain.t = "number"
            /\ Abs(val.summary.totalCost.v - SumPositionCost(n)) <= n
            /\ Abs(val.summary.totalValue.v - SumPositionValue(n)) <= n
            /\ Abs(val.summary.totalGain.v - SumPositionGain(n)) <= n

\* C6: the valuation succeeds with exactly one valued position per holding,
\* in holding order; a holding without a quote in the batch response is
\* listed with current price 0 and value 0.
C6_OnePositionPerHolding ==
    ValDone =>
        /\ val.status = 200
        /\ Len(val.body) = Len(val.stocks)
        /\ \A k \in 1..Len(val.stocks) :
            /\ val.body[k].ticker = val.stocks[k].ticker
            /\ val.body[k].shares = val.stocks[k].shares
            /\ val.body[k].buyPrice = val.stocks[k].buyPrice
            /\ (Quoted /\ val.batch.prices[val.stocks[k].ticker] = Undefined) =>
                   (PriceInBase(k) = 0 /\ ReportedValue(k) = 0)

\* C6 witness: two holdings valued, the first without a quote, the second
\* with one
C6_Witness ==
    /\ ValDone /\ Quoted /\ Len(val.stocks) = 2
    /\ val.batch.prices[val.stocks[1].ticker] = Undefined
    /\ val.batch.prices[val.stocks[2].ticker] # Undefined
    /\ PriceInBase(1) = 0 /\ PriceInBase(2) > 0

\* C7: when the batch price request fails the valuation still succeeds and
\* every holding is returned with current value equal to its cost basis
\* converted to base currency (rounded to the cent), gain 0 and
\* gainPercent 0.
C7_BatchFailureGivesCostBasis ==
    (ValDone /\ ~Quoted) =>
        /\ val.status = 200
        /\ Len(val.body) = Len(val.stocks)
        /\ \A k \in 1..Len(val.stocks) :
            /\ Abs(ReportedValue(k) - CostInBase(k) * val.stocks[k].shares) <= 5
            /\ ReportedGain(k) = 0
            /\ val.body[k].gainPercent = 0

-----------------------------------------------------------------------------
(* routes/dividends.js (the version with outlier detection): the estimator *)
(* Per-share figures are in 1/100000, yields in 1/1000, prices in cents.    *)

\* Bounds of the estimator model
MaxHistory == 4

\* days in the year that setFullYear(getFullYear() - 1) goes back
YearDays == 365

\* a payment: how many days before the request it is dated, and its amount
PaymentAges == {30, 400}
PaymentAmounts == {0, 12344, 100000, 2500000}  \* 0, 0.12344, 1, 25

Payments == [daysAgo : PaymentAges, amount : PaymentAmounts]

\* response.data.dividends: a list of payments, or not an array
Array(items) == [isArray |-> TRUE, items |-> items]
NotAnArray == [isArray |-> FALSE, items |-> <<>>]

\* trailing-year history 1,1,1,1,1,1,1,1,25
ExampleHistory ==
    [k \in 1..9 |->
        [daysAgo |-> 30, amount |-> IF k = 9 THEN 2500000 ELSE 100000]]

Histories ==
    {Array(h) : h \in SeqsUpTo(Payments, MaxHistory) \cup {ExampleHistory}}
        \cup {NotAnArray}

\* response.data.info: dividendRate (absent, 0, 4.0 or 0.96123),
\* trailingAnnualDividendYield, currentPrice
Infos ==
    [dividendRate : {Undefined, Num(0), Num(400000), Num(96123)},
     trailingAnnualDividendYield : {Undefined, Num(20)},
     currentPrice : {Undefined, Num(5000)}]

NoInfo ==
    [dividendRate |-> Undefined, trailingAnnualDividendYield |-> Undefined,
     currentPrice |-> Undefined]

\* the provider's answer to GET /api/dividend/:ticker
DividendResponses ==
    [kind : {"ok"}, info : Infos, dividends : Histories]
        \cup [kind : {"nodata", "fail"}, info : {NoInfo}, dividends : {NotAnArray}]

\* [...arr].sort((a, b) => a - b)
Sorted(arr) == SortSeq(arr, LAMBDA a, b : a < b)

\* the value at the rank below the index, without interpolation
percentile_floor(arr, p) ==
    IF Len(arr) = 0 THEN 0
    ELSE 4 * Sorted(arr)[((p \div 25) * (Len(arr) - 1)) \div 4 + 1]

\* percentile(arr, p), lines 30-40, for p a multiple of 25; the result is
\* 4 times the percentile, which keeps the interpolation weights integral
percentile(arr, p) ==
    IF Len(arr) = 0 THEN 0
    ELSE LET sorted == Sorted(arr)
             index4 == (p \div 25) * (Len(sorted) - 1)  \* 4 * index
             lower == index4 \div 4
             upper == IF index4 % 4 = 0 THEN lower ELSE lower + 1
             weight4 == index4 % 4
         IN  IF lower = upper THEN 4 * sorted[lower + 1]
             ELSE sorted[lower + 1] * (4 - weight4) + sorted[upper + 1] * weight4

RECURSIVE SumAmounts(_)
\* arr.reduce((a, b) => a + b, 0)
SumAmounts(arr) ==
    IF Len(arr) = 0 THEN 0 ELSE Head(arr) + SumAmounts(Tail(arr))

\* dividends.filter(divDate > oneYearAgo).map(amount), lines 73-76
lastYearDivs(dividends) ==
    LET recent == SelectSeq(dividends, LAMBDA d : d.daysAgo < YearDays)
    IN  [k \in 1..Len(recent) |-> recent[k].amount]

\* lines 80-87: the amounts inside [q1 - 1.5 iqr, q3 + 1.5 iqr]; the
\* comparison is made on 8 times each side
regularDivs(amounts) ==
    LET q1 == percentile(amounts, 25)
        q3 == percentile(amounts, 75)
        iqr == q3 - q1
        lowerBound8 == 2 * q1 - 3 * iqr
        upperBound8 == 2 * q3 + 3 * iqr
    IN  SelectSeq(amounts, LAMBDA d : 8 * d >= lowerBound8 /\ 8 * d <= upperBound8)

\* dividends.slice(-4).map(amount), line 97
last4(dividends) ==
    LET n == Len(dividends)
        from == IF n > 4 THEN n - 3 ELSE 1
    IN  [k \in 1..(n - from + 1) |-> dividends[from + k - 1].amount]

\* lines 98-99: the amounts below 2.5 times the median (compared on 8 times
\* each side)
regularVals(amounts) ==
    LET medianVal == percentile(amounts, 50)
    IN  SelectSeq(amounts, LAMBDA d : 8 * d < 5 * medianVal)

\* x.toFixed(4) of a figure in 1/100000
ToFixed4(x) == 10 * RoundDiv(x, 10)

Estimate(value, method) == [value |-> value, method |-> method]

\* lines 67-93: the estimate from the trailing year, or no result
Method3(dividends) ==
    IF dividends.isArray /\ Len(dividends.items) >= 4
          /\ Len(lastYearDivs(dividends.items)) >= 2
          /\ Len(regularDivs(lastYearDivs(dividends.items))) > 0
    THEN Estimate(ToFixed4(SumAmounts(regularDivs(lastYearDivs(dividends.items)))),
                  "outlier-filtered-history")
    ELSE Estimate(0, "none")

\* a fallback that adds up what remains and does not scale it to 4 payments
Method4_unscaled(dividends) ==
    IF dividends.isArray /\ Len(dividends.items) >= 4
          /\ Len(regularVals(last4(dividends.items))) >= 3
    THEN LET vals == regularVals(last4(dividends.items))
         IN  Estimate(ToFixed4(SumAmounts(vals)), "quarterly-fallback")
    ELSE Estimate(0, "none")

\* lines 95-104: the estimate from the last 4 payments, or no result
Method4(dividends) ==
    IF dividends.isArray /\ Len(dividends.items) >= 4
          /\ Len(regularVals(last4(dividends.items))) >= 3
    THEN LET vals == regularVals(last4(dividends.items))
         IN  Estimate(10 * RoundDiv(SumAmounts(vals) * 4, 10 * Len(vals)),
                      "quarterly-fallback")
    ELSE Estimate(0, "none")

\* an estimator that consults the payment history before the declared rate
calculateRegularDividend_historyFirst(response) ==
    IF response.kind # "ok" THEN Estimate(0, "none")
    ELSE IF Method3(response.dividends).method # "none"
    THEN Method3(response.dividends)
    ELSE IF Truthy(response.info.dividendRate)
               /\ response.info.dividendRate.v > 0
    THEN Estimate(response.info.dividendRate.v, "declared-rate")
    ELSE Method4(response.dividends)

\* calculateRegularDividend, lines 43-111
calculateRegularDividend(response) ==
    IF response.kind # "ok" THEN Estimate(0, "none")
    ELSE LET info == response.info
             rate == info.dividendRate
             yield == info.trailingAnnualDividendYield
             price == info.currentPrice
         IN  IF Truthy(rate) /\ rate.v > 0
             THEN Estimate(rate.v, "declared-rate")
             ELSE IF Truthy(yield) /\ Truthy(price) /\ price.v > 0
                        /\ yield.v * price.v > 0
             THEN Estimate(yield.v * price.v, "trailing-yield")
             ELSE IF Method3(response.dividends).method # "none"
             THEN Method3(response.dividends)
             ELSE Method4(response.dividends)

\* one call of the estimator
Estimator ==
    /\ div.pc = "ready"
    /\ div' = [pc |-> "done", response |-> div.response,
               result |-> calculateRegularDividend(div.response)]
    /\ UNCHANGED <<fxVars, val, appVars>>

InitEst ==
    /\ exchangeRateCache = EmptyCache
    /\ now = StartTime
    /\ calls = [p \in Callers |-> IdleCall]
    /\ storedAt = [c \in FxCurrencies |-> 0]
    /\ lastFetch = <<>>
    /\ requests = 0
    /\ val = IdleVal
    /\ IdleApp
    /\ \E response \in DividendResponses :
           div = [pc |-> "ready", response |-> response]

NextEst == Estimator

SpecEst == InitEst /\ [][NextEst]_vars

-----------------------------------------------------------------------------
(* The dividend summary, GET /summary of the dividends route.  Per-share
   estimates are in 1/100000, shares in 1/10, so annual * shares is in
   1/1000000 of the holding's currency; DKK amounts are in 1/100. *)

MaxStocks == 2

\* EXCHANGE_RATES, lines 12-20, in 1/100
EXCHANGE_RATES ==
    [c \in {"DKK", "USD", "EUR", "GBP", "SEK", "NOK", "CHF"} |->
        CASE c = "DKK" -> 100 [] c = "USD" -> 638 [] c = "EUR" -> 746
          [] c = "GBP" -> 847 [] c = "SEK" -> 63 [] c = "NOK" -> 60
          [] c = "CHF" -> 731]

\* the route's own convertToDKK, lines 23-27: amount in 1/1000000, result
\* in 1/100; the whole units and the fraction are multiplied separately
dividendsConvertToDKK(amount, currency) ==
    IF amount <= 0 THEN 0
    ELSE LET rate == OrElse(Lookup(EXCHANGE_RATES, currency),
                            Num(EXCHANGE_RATES["USD"])).v
         IN  (amount \div 1000000) * rate
                 + RoundDiv((amount % 1000000) * rate, 1000000)

\* the Portfolio documents the summary reads
SummaryStocks ==
    {[ticker |-> "AAPL", shares |-> 50, currency |-> "USD"],
     [ticker |-> "AAPL", shares |-> 1, currency |-> ""],
     [ticker |-> "VOLV.ST", shares |-> 100, currency |-> "SEK"],
     [ticker |-> "VOLV.ST", shares |-> 50, currency |-> "USD"]}

SummaryTickers == {"AAPL", "VOLV.ST"}

\* the provider's answers used for the summary: a declared rate of 0.96, the
\* history 1,1,1,1,1,1,1,1,25, a declared rate of 0, and a failed request
Declared096 ==
    [kind |-> "ok",
     info |-> [NoInfo EXCEPT !.dividendRate = Num(96000)],
     dividends |-> NotAnArray]

SummaryResponses ==
    {Declared096,
     [kind |-> "ok", info |-> NoInfo, dividends |-> Array(ExampleHistory)],
     [kind |-> "ok", info |-> [NoInfo EXCEPT !.dividendRate = Num(0)],
      dividends |-> NotAnArray],
     [kind |-> "fail", info |-> NoInfo, dividends |-> NotAnArray]}

\* days since 1 January at the time of the request
DayOfYear == 100

\* a Dividend document (models/Dividend.js); paymentDay counts days from the
\* request, negative for the past
DividendRecord(ticker, perShare, total, shares, day, status) ==
    [ticker |-> ticker, amountPerShare |-> perShare, totalAmount |-> total,
     currency |-> "DKK", paymentDay |-> day, shares |-> shares,
     status |-> status]

\* stored documents: a manually entered expected dividend, an expected
\* dividend of a held ticker, and dividends received this year and last
StoredDividends ==
    <<DividendRecord("MSFT", 300000, 10000, 50, 60, "EXPECTED"),
      DividendRecord("AAPL", 50000, 999, 30, 200, "EXPECTED"),
      DividendRecord("AAPL", 24000, 5000, 50, -30, "RECEIVED"),
      DividendRecord("AAPL", 24000, 4000, 50, -400, "RECEIVED")>>

\* the Dividend collection before the request: any selection of them
Collections ==
    {SelectSeq(StoredDividends, LAMBDA r : r \in chosen) :
        chosen \in SUBSET {StoredDividends[k] : k \in 1..Len(StoredDividends)}}

\* Dividend.findOne({ticker, status: 'EXPECTED'}): its position, or 0
FindExpected(store, ticker) ==
    LET hits == {k \in 1..Len(store) :
                    store[k].ticker = ticker /\ store[k].status = "EXPECTED"}
    IN  IF hits = {} THEN 0 ELSE CHOOSE k \in hits : \A j \in hits : k <= j

\* exDate 3 months out and paymentDate 1 month later, lines 167-170
NewPaymentDay == 120

\* a loop body in which a failed lookup discards what was accumulated
SummaryStep_failureDiscards(acc, stock, response) ==
    IF response.kind = "fail"
    THEN [acc EXCEPT !.estimatedAnnualDividend = 0,
                     !.expectedDividendsList = <<>>]
    ELSE LET annual == calculateRegularDividend(response).value
             dividendInDKK ==
                 dividendsConvertToDKK(annual * stock.shares,
                     IF stock.currency = "" THEN "USD" ELSE stock.currency)
         IN  IF annual > 0
             THEN [acc EXCEPT !.estimatedAnnualDividend = @ + dividendInDKK]
             ELSE acc

\* the body of the loop for one stock, lines 143-187
SummaryStep(acc, stock, response) ==
    LET annualDividendPerShare == calculateRegularDividend(response).value
        shares == stock.shares
        totalDividend == annualDividendPerShare * shares
        currency == IF stock.currency = "" THEN "USD" ELSE stock.currency
        dividendInDKK == dividendsConvertToDKK(totalDividend, currency)
        found == FindExpected(acc.store, stock.ticker)
        dividend ==
            IF found > 0
            THEN [acc.store[found] EXCEPT
                     !.amountPerShare = annualDividendPerShare,
                     !.totalAmount = dividendInDKK,
                     !.shares = shares,
                     !.currency = "DKK"]
            ELSE DividendRecord(stock.ticker, annualDividendPerShare,
                                dividendInDKK, shares, NewPaymentDay,
                                "EXPECTED")
    IN  IF annualDividendPerShare > 0
        THEN [estimatedAnnualDividend |->
                  acc.estimatedAnnualDividend + dividendInDKK,
              expectedDividendsList |->
                  Append(acc.expectedDividendsList, dividend),
              store |-> IF found > 0
                        THEN [acc.store EXCEPT ![found] = dividend]
                        ELSE Append(acc.store, dividend)]
        ELSE acc

RECURSIVE SummaryLoop(_, _, _, _)
\* for (const stock of portfolio), lines 141-191, over the first n stocks
SummaryLoop(portfolio, n, lookups, store) ==
    IF n = 0
    THEN [estimatedAnnualDividend |-> 0, expectedDividendsList |-> <<>>,
          store |-> store]
    ELSE SummaryStep(SummaryLoop(portfolio, n - 1, lookups, store),
                     portfolio[n], lookups[portfolio[n].ticker])

RECURSIVE InsertByPaymentDate(_, _)
\* d placed behind every document paid on the same day or later
InsertByPaymentDate(sorted, d) ==
    IF sorted = <<>> THEN <<d>>
    ELSE IF Head(sorted).paymentDay >= d.paymentDay
    THEN <<Head(sorted)>> \o InsertByPaymentDate(Tail(sorted), d)
    ELSE <<d>> \o sorted

RECURSIVE SortByPaymentDate(_)
\* .sort((a, b) => new Date(b.paymentDate) - new Date(a.paymentDate)),
\* latest first, equal dates in their former order
SortByPaymentDate(list) ==
    IF list = <<>> THEN <<>>
    ELSE InsertByPaymentDate(SortByPaymentDate(SubSeq(list, 1, Len(list) - 1)),
                             list[Len(list)])

RECURSIVE SumTotalAmount(_)
\* reduce((sum, div) => sum + (parseFloat(div.totalAmount) || 0), 0)
SumTotalAmount(list) ==
    IF list = <<>> THEN 0
    ELSE Head(list).totalAmount + SumTotalAmount(Tail(list))

\* the JSON answer of GET /summary, lines 193-239
SummaryResponse(portfolio, loop) ==
    LET held == {portfolio[k].ticker : k \in 1..Len(portfolio)}
        manualExpectedDividends ==
            SelectSeq(loop.store,
                      LAMBDA r : r.status = "EXPECTED" /\ r.ticker \notin held)
        allExpectedDividends ==
            loop.expectedDividendsList \o manualExpectedDividends
        receivedDividends ==
            SortByPaymentDate(SelectSeq(loop.store,
                                        LAMBDA r : r.status = "RECEIVED"))
        thisYearDividends ==
            SelectSeq(loop.store,
                      LAMBDA r : /\ r.status = "RECEIVED"
                                 /\ r.paymentDay >= -DayOfYear
                                 /\ r.paymentDay <= 0)
    IN  [estimatedAnnualDividend |-> loop.estimatedAnnualDividend,
         monthlyAverage |-> RoundDiv(loop.estimatedAnnualDividend, 12),
         expectedTotal |-> loop.estimatedAnnualDividend,
         expectedCount |-> Len(allExpectedDividends),
         receivedTotal |-> SumTotalAmount(receivedDividends),
         receivedCount |-> Len(receivedDividends),
         thisYearTotal |-> SumTotalAmount(thisYearDividends),
         expected |-> SortByPaymentDate(allExpectedDividends),
         received |-> receivedDividends]

\* GET /summary, lines 131-244
GetDividendSummary ==
    /\ div.pc = "ready"
    /\ \E lookups \in [SummaryTickers -> SummaryResponses] :
           LET loop == SummaryLoop(div.portfolio, Len(div.portfolio),
                                   lookups, div.store)
           IN  div' = [pc |-> "done", portfolio |-> div.portfolio,
                       before |-> div.store, store |-> loop.store,
                       lookups |-> lookups, version |-> 1,
                       res |-> SummaryResponse(div.portfolio, loop)]
    /\ UNCHANGED <<fxVars, val, appVars>>

(* The summary of routes/dividends.js, lines 70-220: the estimate is the
   provider's annualDividend, and the payment dates are fetched with a
   second request before the document is saved. *)

\* the first answer of GET /api/dividend/:ticker: annualDividend 0.96, 0,
\* or no answer
AnnualDividendResponses ==
    [kind : {"ok"}, annualDividend : {Num(96000), Num(0)}]
        \cup {[kind |-> "fail", annualDividend |-> Undefined]}

\* the second answer: nextExDate and nextPayDate both absent, both dates, or
\* a string that is no date; or no answer
DateResponses ==
    [kind : {"ok"}, dates : {"none", "valid", "invalid"}]
        \cup {[kind |-> "fail", dates |-> "none"]}

\* nextPayDate of the provider, in days from the request
ProviderPayDay == 45

\* calculateRegularDividend of routes/dividends.js, lines 29-50
calculateRegularDividendV2(response) ==
    IF response.kind # "ok" THEN 0
    ELSE LET annualDividend == OrElse(response.annualDividend, Num(0)).v
         IN  IF annualDividend > 0 THEN annualDividend ELSE 0

\* the body of the loop for one stock, routes/dividends.js lines 83-164;
\* new Date of an unparsable string is an invalid date, which save() rejects
SummaryStepV2(acc, stock, lookup) ==
    LET annualDividendPerShare == calculateRegularDividendV2(lookup.first)
        shares == stock.shares
        totalDividend == annualDividendPerShare * shares
        currency == IF stock.currency = "" THEN "USD" ELSE stock.currency
        dividendInDKK == dividendsConvertToDKK(totalDividend, currency)
        divResponse == lookup.second
        payDate == IF divResponse.kind = "ok" /\ divResponse.dates = "valid"
                   THEN ProviderPayDay ELSE NewPaymentDay
        saveThrows == divResponse.kind = "ok" /\ divResponse.dates = "invalid"
        found == FindExpected(acc.store, stock.ticker)
        dividend ==
            IF found > 0
            THEN [acc.store[found] EXCEPT
                     !.amountPerShare = annualDividendPerShare,
                     !.totalAmount = dividendInDKK,
                     !.shares = shares,
                     !.currency = "DKK",
                     !.paymentDay = payDate]
            ELSE DividendRecord(stock.ticker, annualDividendPerShare,
                                dividendInDKK, shares, payDate, "EXPECTED")
    IN  IF annualDividendPerShare > 0
        THEN IF saveThrows
             THEN [acc EXCEPT !.estimatedAnnualDividend = @ + dividendInDKK]
             ELSE [estimatedAnnualDividend |->
                       acc.estimatedAnnualDividend + dividendInDKK,
                   expectedDividendsList |->
                       Append(acc.expectedDividendsList, dividend),
                   store |-> IF found > 0
                             THEN [acc.store EXCEPT ![found] = dividend]
                             ELSE Append(acc.store, dividend)]
        ELSE acc

RECURSIVE SummaryLoopV2(_, _, _, _)
\* for (const stock of portfolio), routes/dividends.js lines 82-165
SummaryLoopV2(portfolio, n, lookups, store) ==
    IF n = 0
    THEN [estimatedAnnualDividend |-> 0, expectedDividendsList |-> <<>>,
          store |-> store]
    ELSE SummaryStepV2(SummaryLoopV2(portfolio, n - 1, lookups, store),
                       portfolio[n], lookups[portfolio[n].ticker])

\* GET /summary of routes/dividends.js, lines 70-220
GetDividendSummaryV2 ==
    /\ div.pc = "ready"
    /\ \E lookups \in [SummaryTickers ->
                          [first : AnnualDividendResponses,
                           second : DateResponses]] :
           LET loop == SummaryLoopV2(div.portfolio, Len(div.portfolio),
                                     lookups, div.store)
           IN  div' = [pc |-> "done", portfolio |-> div.portfolio,
                       before |-> div.store, store |-> loop.store,
                       lookups |-> lookups, version |-> 2,
                       res |-> SummaryResponse(div.portfolio, loop)]
    /\ UNCHANGED <<fxVars, val, appVars>>

InitSummary ==
    /\ exchangeRateCache = EmptyCache
    /\ now = StartTime
    /\ calls = [p \in Callers |-> IdleCall]
    /\ storedAt = [c \in FxCurrencies |-> 0]
    /\ lastFetch = <<>>
    /\ requests = 0
    /\ val = IdleVal
    /\ IdleApp
    /\ \E portfolio \in SeqsUpTo(SummaryStocks, MaxStocks),
          store \in Collections :
           div = [pc |-> "ready", portfolio |-> portfolio, store |-> store]

NextSummary == GetDividendSummary \/ GetDividendSummaryV2

SpecSummary == InitSummary /\ [][NextSummary]_vars

-----------------------------------------------------------------------------
(* Claims about the estimator, checked under SpecEst *)

EstDone == div.pc = "done" /\ div.response.kind = "ok"

\* a declared forward rate > 0 is present
HasRate ==
    /\ div.response.info.dividendRate.t = "number"
    /\ div.response.info.dividendRate.v > 0

\* trailing yield and current price are present with a product > 0
HasYield ==
    /\ div.response.info.trailingAnnualDividendYield.t = "number"
    /\ div.response.info.currentPrice.t = "number"
    /\ div.response.info.trailingAnnualDividendYield.v
           * div.response.info.currentPrice.v > 0

\* the number of payments, 0 when there is no list
PaymentCount ==
    IF div.response.dividends.isArray
    THEN Len(div.response.dividends.items) ELSE 0

\* the amounts dated within the trailing 12 months, in payment order
WindowAmounts ==
    LET items == div.response.dividends.items
        recent == SelectSeq(items, LAMBDA d : d.daysAgo < YearDays)
    IN  [k \in 1..Len(recent) |-> recent[k].amount]

\* 100 times the p-th percentile of the amounts by rank interpolation:
\* index = p/100 * (n - 1), linear between the floor and ceiling ranks
Rank100(amounts, p) ==
    LET sorted == SortSeq(amounts, LAMBDA a, b : a < b)
        index100 == p * (Len(sorted) - 1)
        lo == index100 \div 100
        w == index100 % 100
        hi == IF w = 0 THEN lo ELSE lo + 1
    IN  sorted[lo + 1] * (100 - w) + sorted[hi + 1] * w

\* d lies within [Q1 - 1.5 IQR, Q3 + 1.5 IQR] of the window (all times 200)
WithinFences(d) ==
    LET Q1 == Rank100(WindowAmounts, 25)
        Q3 == Rank100(WindowAmounts, 75)
    IN  /\ 200 * d >= 2 * Q1 - 3 * (Q3 - Q1)
        /\ 200 * d <= 2 * Q3 + 3 * (Q3 - Q1)

RECURSIVE SumWithinFences(_)
\* the sum of the first n window amounts that lie within the fences
SumWithinFences(n) ==
    IF n = 0 THEN 0
    ELSE SumWithinFences(n - 1)
             + (IF WithinFences(WindowAmounts[n]) THEN WindowAmounts[n] ELSE 0)

\* C8: the estimator returns the result of the first applicable method in
\* the order declared rate, trailing yield, outlier-filtered history,
\* quarterly fallback, and 0 when none applies; a declared rate > 0 is
\* returned unchanged whatever the history, and fewer than 4 payments with
\* no rate or yield give 0.
C8_FirstApplicableMethod ==
    EstDone =>
        /\ HasRate =>
               div.result = Estimate(div.response.info.dividendRate.v,
                                     "declared-rate")
        /\ (~HasRate /\ HasYield) =>
               div.result =
                   Estimate(div.response.info.trailingAnnualDividendYield.v
                                * div.response.info.currentPrice.v,
                            "trailing-yield")
        /\ (~HasRate /\ ~HasYield /\ PaymentCount >= 4
                /\ Len(WindowAmounts) >= 2) =>
               div.result.method = "outlier-filtered-history"
        /\ (~HasRate /\ ~HasYield /\ PaymentCount >= 4
                /\ Len(WindowAmounts) < 2) =>
               /\ div.result.method \in {"quarterly-fallback", "none"}
               /\ div.result.method = "none" => div.result.value = 0
        /\ (~HasRate /\ ~HasYield /\ PaymentCount < 4) =>
               div.result = Estimate(0, "none")

\* C8 witness: a declared rate of 4.0 has been returned although 4 payments
\* of the trailing year were present
C8_Witness ==
    /\ EstDone /\ HasRate
    /\ PaymentCount >= 4 /\ Len(WindowAmounts) >= 4
    /\ div.result = Estimate(400000, "declared-rate")

\* the case of C9: no rate or yield applies, at least 4 payments, at least 2
\* of them in the trailing 12 months
HistoryCase ==
    /\ EstDone /\ ~HasRate /\ ~HasYield
    /\ PaymentCount >= 4 /\ Len(WindowAmounts) >= 2

IsExampleHistory ==
    /\ div.response.dividends = Array(ExampleHistory)
    /\ ~HasRate /\ ~HasYield

\* C9 as stated: in that case the estimate equals the sum of exactly those
\* trailing-window amounts that lie within [Q1 - 1.5 IQR, Q3 + 1.5 IQR];
\* for 1,1,1,1,1,1,1,1,25 this excludes 25 and yields 8.
C9_EstimateIsFilteredSum ==
    /\ HistoryCase =>
           div.result.value = SumWithinFences(Len(WindowAmounts))
    /\ (EstDone /\ IsExampleHistory) => div.result.value = 800000

\* C9 amended: in that case the estimate equals that sum rounded to 4
\* decimals; for 1,1,1,1,1,1,1,1,25 this excludes 25 and yields 8.
C9_EstimateIsRoundedFilteredSum ==
    /\ HistoryCase =>
           /\ div.result.value % 10 = 0
           /\ Abs(div.result.value - SumWithinFences(Len(WindowAmounts))) <= 5
    /\ (EstDone /\ IsExampleHistory) => div.result.value = 800000

\* C9 witness: the example 1,1,1,1,1,1,1,1,25 has been estimated from the
\* filtered history at 8
C9_Witness ==
    /\ EstDone /\ IsExampleHistory
    /\ div.result = Estimate(800000, "outlier-filtered-history")

-----------------------------------------------------------------------------
(* The portfolio routes that write: POST /add, PUT /:id and DELETE /:id of
   routes/portfolio.js, with the Portfolio, Transaction and Cash
   collections.  Shares are counted in 1/20000 (half the schema's minimum of
   0.0001), prices in 1/100, rates in 1/100, cash amounts in 1/100 DKK. *)

MaxOps == 3

\* min: [0.0001, ...] of portfolioSchema.shares and transactionSchema.shares
MinShares == 2

\* the buy price sent with POST /add: 200.00
BuyPrice == 20000

\* shares / sellShares of a request body: absent, -0.0001, 0.00005, 0.0001,
\* 0.0002
ShareInputs == {Undefined, Num(-2), Num(1), Num(2), Num(4)}

\* sellPrice of a request body: absent, -300.00, 300.00
SellPrices == {Undefined, Num(-30000), Num(30000)}

\* the currency the provider names for a ticker; a failed request gives USD
ProviderCurrencies == {"USD", "JPY"}

\* enum of the currency paths of the schemas
CurrencyEnum == {"USD", "EUR", "GBP", "SEK", "NOK", "CHF", "DKK"}

\* what the route's getExchangeRate returns, lines 366-374: the live rate or
\* the default 6.5
RouteRates == {650, 700}

\* the factor applied to a sale: the rate of lines 598-600, or none in the
\* handler of lines 224-286, which multiplies shares and price only
SaleRates == RouteRates \cup {100}

HoldingIds == 1..MaxOps

EmptyDb ==
    [pc |-> "on", holdings |-> <<>>, transactions |-> <<>>, cash |-> <<>>,
     ops |-> 0, last |-> [op |-> "none", status |-> 0]]

\* Portfolio.findById: the position of the document, or 0
FindById(holdings, id) ==
    LET hits == {k \in 1..Len(holdings) : holdings[k].id = id}
    IN  IF hits = {} THEN 0 ELSE CHOOSE k \in hits : TRUE

\* shares * price * rate in DKK, to 2 decimals
AmountDKK(shares, price, rate) == RoundDiv(shares * price * rate, 2000000)

\* the holdings without the document at position k
RemoveAt(holdings, k) ==
    [j \in 1..(Len(holdings) - 1) |->
        IF j < k THEN holdings[j] ELSE holdings[j + 1]]

\* a portfolioSchema without the minimum of shares
PortfolioValid_unchecked(shares) == TRUE

\* portfolioSchema: shares min 0.0001
PortfolioValid(shares) == shares >= MinShares

\* POST /add, lines 477-547
AddStock(shares, currencyAnswer, deductFromCash, exchangeRate) ==
    /\ db.pc = "on" /\ db.ops < MaxOps
    /\ LET id == db.ops + 1
           stock == [id |-> id, ticker |-> "AAPL", shares |-> shares.v,
                     buyPrice |-> BuyPrice, currency |-> currencyAnswer]
           buy == [type |-> "BUY", shares |-> shares.v, price |-> BuyPrice]
           withdrawal == [type |-> "WITHDRAWAL",
                          amount |-> AmountDKK(shares.v, BuyPrice, exchangeRate)]
       IN  IF ~Truthy(shares)
           THEN db' = [db EXCEPT !.ops = @ + 1,
                                 !.last = [op |-> "add", status |-> 400]]
           ELSE IF ~PortfolioValid(shares.v)
                       \/ currencyAnswer \notin CurrencyEnum
           THEN db' = [db EXCEPT !.ops = @ + 1,
                                 !.last = [op |-> "add", status |-> 500]]
           ELSE db' = [db EXCEPT
                          !.ops = @ + 1,
                          !.holdings = Append(@, stock),
                          !.transactions = Append(@, buy),
                          !.cash = IF deductFromCash
                                   THEN Append(@, withdrawal) ELSE @,
                          !.last = [op |-> "add", status |-> 201, id |-> id]]
    /\ UNCHANGED <<fxVars, val, div, reqs, proc, conv>>

\* PUT /:id, lines 553-577: findByIdAndUpdate with runValidators
UpdateStock(id, shares) ==
    /\ db.pc = "on" /\ db.ops < MaxOps
    /\ shares # Undefined
    /\ LET k == FindById(db.holdings, id)
       IN  IF ~PortfolioValid(shares.v)
           THEN db' = [db EXCEPT !.ops = @ + 1,
                                 !.last = [op |-> "update", status |-> 500]]
           ELSE IF k = 0
           THEN db' = [db EXCEPT !.ops = @ + 1,
                                 !.last = [op |-> "update", status |-> 404]]
           ELSE db' = [db EXCEPT
                          !.ops = @ + 1,
                          !.holdings[k].shares = shares.v,
                          !.last = [op |-> "update", status |-> 200,
                                    id |-> id]]
    /\ UNCHANGED <<fxVars, val, div, reqs, proc, conv>>

\* sellShares ? parseFloat(sellShares) : portfolio.shares, line 590
SharesToSell(stock, sellShares) ==
    IF Truthy(sellShares) THEN sellShares.v ELSE stock.shares

\* sellPrice ? parseFloat(sellPrice) : portfolio.buyPrice, line 591
SellPriceOf(stock, sellPrice) ==
    IF Truthy(sellPrice) THEN sellPrice.v ELSE stock.buyPrice

\* the Cash document of a sale, lines 603-609
SaleCredit(id, shares, price, rate) ==
    [type |-> "SALE", amount |-> AmountDKK(shares, price, rate),
     of |-> id, shares |-> shares]

\* the Transaction document of a sale, lines 612-619
SellRecord(id, shares, price) ==
    [type |-> "SELL", shares |-> shares, price |-> price, of |-> id]

\* cashSchema: amount min 0
CashValid(doc) == doc.amount >= 0

\* transactionSchema: shares min 0.0001, price min 0
TransactionValid(doc) == doc.shares >= MinShares /\ doc.price >= 0

\* DELETE /:id, lines 580-646 (and 224-286), run without interruption
SellStock(id, sellShares, sellPrice, rate) ==
    /\ db.pc = "on" /\ db.ops < MaxOps
    /\ LET k == FindById(db.holdings, id)
           portfolio == db.holdings[k]
           sharesToSell == SharesToSell(portfolio, sellShares)
           price == SellPriceOf(portfolio, sellPrice)
           cashTransaction == SaleCredit(id, sharesToSell, price, rate)
           transaction == SellRecord(id, sharesToSell, price)
           done(status) == [op |-> "sell", status |-> status, id |-> id,
                            had |-> portfolio.shares, sold |-> sharesToSell]
       IN  IF k = 0
           THEN db' = [db EXCEPT !.ops = @ + 1,
                                 !.last = [op |-> "sell", status |-> 404]]
           ELSE IF sharesToSell > portfolio.shares
           THEN db' = [db EXCEPT !.ops = @ + 1, !.last = done(400)]
           ELSE IF ~CashValid(cashTransaction)
           THEN db' = [db EXCEPT !.ops = @ + 1, !.last = done(500)]
           ELSE IF ~TransactionValid(transaction)
           THEN db' = [db EXCEPT !.ops = @ + 1,
                                 !.cash = Append(@, cashTransaction),
                                 !.last = done(500)]
           ELSE IF sharesToSell = portfolio.shares
           THEN db' = [db EXCEPT !.ops = @ + 1,
                                 !.cash = Append(@, cashTransaction),
                                 !.transactions = Append(@, transaction),
                                 !.holdings = RemoveAt(@, k),
                                 !.last = done(200)]
           ELSE IF ~PortfolioValid(portfolio.shares - sharesToSell)
           THEN db' = [db EXCEPT !.ops = @ + 1,
                                 !.cash = Append(@, cashTransaction),
                                 !.transactions = Append(@, transaction),
                                 !.last = done(500)]
           ELSE db' = [db EXCEPT !.ops = @ + 1,
                                 !.cash = Append(@, cashTransaction),
                                 !.transactions = Append(@, transaction),
                                 !.holdings[k].shares = @ - sharesToSell,
                                 !.last = done(200)]
    /\ UNCHANGED <<fxVars, val, div, reqs, proc, conv>>

InitHold ==
    /\ exchangeRateCache = EmptyCache
    /\ now = StartTime
    /\ calls = [p \in Callers |-> IdleCall]
    /\ storedAt = [c \in FxCurrencies |-> 0]
    /\ lastFetch = <<>>
    /\ requests = 0
    /\ val = IdleVal
    /\ div = IdleDiv
    /\ db = EmptyDb
    /\ reqs = <<>>
    /\ proc = [pc |-> "off"]
    /\ conv = [pc |-> "off"]

NextHold ==
    \/ \E shares \in ShareInputs, currency \in ProviderCurrencies,
          deductFromCash \in BOOLEAN, rate \in RouteRates :
           AddStock(shares, currency, deductFromCash, rate)
    \/ \E id \in HoldingIds, shares \in ShareInputs : UpdateStock(id, shares)
    \/ \E id \in HoldingIds, sellShares \in ShareInputs,
          sellPrice \in SellPrices, rate \in SaleRates :
           SellStock(id, sellShares, sellPrice, rate)

SpecHold == InitHold /\ [][NextHold]_vars

-----------------------------------------------------------------------------
(* DELETE /:id of routes/portfolio.js, lines 580-646 (and part_004 lines
   227-293), as the event loop runs it: each await of the handler ends a
   step, so the steps of several requests on the same holding interleave.
   reqs holds one record per request with the handler's local variables. *)

MaxSells == 2

\* the holding the requests sell: 0.0002 shares, stored by POST /add
SellableShares == 4

SellId == 1

SellableDb ==
    [EmptyDb EXCEPT
        !.holdings = <<[id |-> SellId, ticker |-> "AAPL",
                        shares |-> SellableShares, buyPrice |-> BuyPrice,
                        currency |-> "USD"]>>,
        !.transactions = <<[type |-> "BUY", shares |-> SellableShares,
                            price |-> BuyPrice]>>,
        !.ops = 1, !.last = [op |-> "add", status |-> 201, id |-> SellId]]

\* res.status(code).json(...): the handler of request r has ended
Respond(r, code) == [reqs EXCEPT ![r].pc = "done", ![r].status = code]

\* lines 582-595: the body is read, findById answers, the shares and the
\* price of the sale are computed and compared with the document read
SellFind(sellShares, sellPrice) ==
    /\ db.pc = "on" /\ Len(reqs) < MaxSells
    /\ LET k == FindById(db.holdings, SellId)
           portfolio == db.holdings[k]
           sharesToSell == SharesToSell(portfolio, sellShares)
           price == SellPriceOf(portfolio, sellPrice)
       IN  reqs' =
               IF k = 0
               THEN Append(reqs, [pc |-> "done", status |-> 404])
               ELSE IF sharesToSell > portfolio.shares
               THEN Append(reqs, [pc |-> "done", status |-> 400,
                                  portfolio |-> portfolio,
                                  sharesToSell |-> sharesToSell])
               ELSE Append(reqs, [pc |-> "rate", status |-> 0,
                                  portfolio |-> portfolio,
                                  sharesToSell |-> sharesToSell,
                                  price |-> price, rate |-> 0])
    /\ UNCHANGED <<fxVars, val, div, db, proc, conv>>

\* lines 598-610: getExchangeRate answers, the Cash document is built and
\* its save is started
SellRate(r, exchangeRate) ==
    /\ r \in 1..Len(reqs) /\ reqs[r].pc = "rate"
    /\ reqs' = [reqs EXCEPT ![r].pc = "cash", ![r].rate = exchangeRate]
    /\ UNCHANGED <<fxVars, val, div, db, proc, conv>>

\* line 610: cashTransaction.save() validates and inserts; lines 613-620
\* build the Transaction document
SellCash(r) ==
    /\ r \in 1..Len(reqs) /\ reqs[r].pc = "cash"
    /\ LET cashTransaction ==
               SaleCredit(SellId, reqs[r].sharesToSell, reqs[r].price,
                          reqs[r].rate)
       IN  IF CashValid(cashTransaction)
           THEN /\ db' = [db EXCEPT !.cash = Append(@, cashTransaction)]
                /\ reqs' = [reqs EXCEPT ![r].pc = "transaction"]
           ELSE /\ reqs' = Respond(r, 500)
                /\ UNCHANGED db
    /\ UNCHANGED <<fxVars, val, div, proc, conv>>

\* line 621: transaction.save() validates and inserts
SellTransaction(r) ==
    /\ r \in 1..Len(reqs) /\ reqs[r].pc = "transaction"
    /\ LET transaction ==
               SellRecord(SellId, reqs[r].sharesToSell, reqs[r].price)
       IN  IF TransactionValid(transaction)
           THEN /\ db' = [db EXCEPT !.transactions = Append(@, transaction)]
                /\ reqs' = [reqs EXCEPT ![r].pc = "portfolio"]
           ELSE /\ reqs' = Respond(r, 500)
                /\ UNCHANGED db
    /\ UNCHANGED <<fxVars, val, div, proc, conv>>

\* lines 624-642: findByIdAndDelete when all the shares read were sold,
\* else the document read is saved with the shares reduced.  A save of a
\* document that was deleted meanwhile updates nothing; whether it rejects
\* depends on the Mongoose release (missingThrows).
SellPortfolio(r, missingThrows) ==
    /\ r \in 1..Len(reqs) /\ reqs[r].pc = "portfolio"
    /\ LET k == FindById(db.holdings, SellId)
           remaining == reqs[r].portfolio.shares - reqs[r].sharesToSell
       IN  IF reqs[r].sharesToSell = reqs[r].portfolio.shares
           THEN /\ db' = [db EXCEPT
                             !.holdings = IF k = 0 THEN @ ELSE RemoveAt(@, k)]
                /\ reqs' = Respond(r, 200)
           ELSE IF ~PortfolioValid(remaining)
           THEN /\ reqs' = Respond(r, 500)
                /\ UNCHANGED db
           ELSE IF k = 0
           THEN /\ reqs' = Respond(r, IF missingThrows THEN 500 ELSE 200)
                /\ UNCHANGED db
           ELSE /\ db' = [db EXCEPT !.holdings[k].shares = remaining]
                /\ reqs' = Respond(r, 200)
    /\ UNCHANGED <<fxVars, val, div, proc, conv>>

InitSell ==
    /\ exchangeRateCache = EmptyCache
    /\ now = StartTime
    /\ calls = [p \in Callers |-> IdleCall]
    /\ storedAt = [c \in FxCurrencies |-> 0]
    /\ lastFetch = <<>>
    /\ requests = 0
    /\ val = IdleVal
    /\ div = IdleDiv
    /\ db = SellableDb
    /\ reqs = <<>>
    /\ proc = [pc |-> "off"]
    /\ conv = [pc |-> "off"]

NextSell ==
    \/ \E sellShares \in ShareInputs, sellPrice \in SellPrices :
           SellFind(sellShares, sellPrice)
    \/ \E r \in 1..MaxSells, rate \in RouteRates : SellRate(r, rate)
    \/ \E r \in 1..MaxSells : SellCash(r)
    \/ \E r \in 1..MaxSells : SellTransaction(r)
    \/ \E r \in 1..MaxSells, missingThrows \in BOOLEAN :
           SellPortfolio(r, missingThrows)

SpecSell == InitSell /\ [][NextSell]_vars

-----------------------------------------------------------------------------
(* PATCH /:id/status of routes/dividends.js, lines 264-299 (and part_002
   lines 290-325), with the Dividend collection in div.store and the Cash
   collection in db.cash.  The _id of a Dividend document is its position
   in the store. *)

MaxPatches == 3

\* status of the request body
StatusInputs == {"EXPECTED", "RECEIVED", "PAID"}

\* req.params.id: the stored documents and one id that names none
DividendIds == 1..(Len(StoredDividends) + 1)

\* the Cash document of a received dividend, lines 284-288; of is the
\* dividend it was written for
DividendDeposit(id, dividend) ==
    [type |-> "DEPOSIT", amount |-> dividend.totalAmount, of |-> id]

\* PATCH /:id/status
UpdateDividendStatus(id, status) ==
    /\ div.pc = "status" /\ div.patches < MaxPatches
    /\ IF status \notin {"EXPECTED", "RECEIVED"}
       THEN /\ div' = [div EXCEPT !.patches = @ + 1,
                                  !.last = [id |-> id, status |-> 400]]
            /\ UNCHANGED db
       ELSE IF id \notin 1..Len(div.store)
       THEN /\ div' = [div EXCEPT !.patches = @ + 1,
                                  !.last = [id |-> id, status |-> 404]]
            /\ UNCHANGED db
       ELSE LET dividend == [div.store[id] EXCEPT !.status = status]
            IN  /\ div' = [div EXCEPT !.patches = @ + 1,
                                      !.store[id] = dividend,
                                      !.last = [id |-> id, status |-> 200]]
                /\ IF status = "RECEIVED" /\ dividend.totalAmount > 0
                   THEN db' = [db EXCEPT
                                  !.cash = Append(@,
                                               DividendDeposit(id, dividend))]
                   ELSE UNCHANGED db
    /\ UNCHANGED <<fxVars, val, reqs, proc, conv>>

InitStatus ==
    /\ exchangeRateCache = EmptyCache
    /\ now = StartTime
    /\ calls = [p \in Callers |-> IdleCall]
    /\ storedAt = [c \in FxCurrencies |-> 0]
    /\ lastFetch = <<>>
    /\ requests = 0
    /\ val = IdleVal
    /\ \E store \in Collections :
           div = [pc |-> "status", store |-> store, patches |-> 0,
                  last |-> [id |-> 0, status |-> 0]]
    /\ db = EmptyDb
    /\ reqs = <<>>
    /\ proc = [pc |-> "off"]
    /\ conv = [pc |-> "off"]

NextStatus ==
    \E id \in DividendIds, status \in StatusInputs :
        UpdateDividendStatus(id, status)

SpecStatus == InitStatus /\ [][NextStatus]_vars

-----------------------------------------------------------------------------
(* The cash routes of part_003: GET /balance (lines 9-29), POST /deposit
   (lines 32-68) and POST /withdraw (lines 71-122).  Amounts are in 1/100
   DKK. *)

MaxCashReqs == 3

\* amount of a request body: absent, -0.10, 0.10, 0.20
CashAmounts == {Undefined, Num(-10), Num(10), Num(20)}

RECURSIVE SumCash(_, _)
\* transactions.reduce(...) over the first n documents, lines 13-20
SumCash(cash, n) ==
    IF n = 0 THEN 0
    ELSE LET tx == cash[n]
         IN  SumCash(cash, n - 1)
                 + (IF tx.type \in {"DEPOSIT", "SALE"} THEN tx.amount
                    ELSE IF tx.type = "WITHDRAWAL" THEN -tx.amount
                    ELSE 0)

\* the balance of GET /balance before toFixed(2)
Balance(cash) == SumCash(cash, Len(cash))

\* !amount || amount <= 0, lines 36 and 75
BadAmount(amount) == ~Truthy(amount) \/ amount.v <= 0

\* POST /deposit, run without interruption
Deposit(amount) ==
    /\ db.pc = "on" /\ db.ops < MaxOps
    /\ IF BadAmount(amount)
       THEN db' = [db EXCEPT !.ops = @ + 1,
                             !.last = [op |-> "deposit", status |-> 400]]
       ELSE LET transaction == [type |-> "DEPOSIT", amount |-> amount.v]
            IN  db' = [db EXCEPT
                          !.ops = @ + 1,
                          !.cash = Append(@, transaction),
                          !.last = [op |-> "deposit", status |-> 201,
                                    balance |->
                                        Balance(Append(db.cash, transaction))]]
    /\ UNCHANGED <<fxVars, val, div, reqs, proc, conv>>

\* POST /withdraw, run without interruption
Withdraw(amount) ==
    /\ db.pc = "on" /\ db.ops < MaxOps
    /\ IF BadAmount(amount) \/ Balance(db.cash) < amount.v
       THEN db' = [db EXCEPT !.ops = @ + 1,
                             !.last = [op |-> "withdraw", status |-> 400]]
       ELSE LET transaction == [type |-> "WITHDRAWAL", amount |-> amount.v]
            IN  db' = [db EXCEPT
                          !.ops = @ + 1,
                          !.cash = Append(@, transaction),
                          !.last = [op |-> "withdraw", status |-> 201,
                                    balance |->
                                        Balance(Append(db.cash, transaction))]]
    /\ UNCHANGED <<fxVars, val, div, reqs, proc, conv>>

\* deposits, withdrawals, purchases and sales, one request at a time
NextCash ==
    \/ \E amount \in CashAmounts : Deposit(amount)
    \/ \E amount \in CashAmounts : Withdraw(amount)
    \/ \E shares \in ShareInputs, currency \in ProviderCurrencies,
          deductFromCash \in BOOLEAN, rate \in SaleRates :
           AddStock(shares, currency, deductFromCash, rate)
    \/ \E id \in HoldingIds, sellShares \in ShareInputs,
          sellPrice \in SellPrices, rate \in SaleRates :
           SellStock(id, sellShares, sellPrice, rate)

SpecCash == InitHold /\ [][NextCash]_vars

(* The same two handlers as the event loop runs them: each await ends a
   step.  reqs holds one record per request. *)

\* lines 34-47: the body is tested, the document built and its save started
DepositBegin(amount) ==
    /\ db.pc = "on" /\ Len(reqs) < MaxCashReqs
    /\ reqs' = IF BadAmount(amount)
               THEN Append(reqs, [kind |-> "deposit", pc |-> "done",
                                  status |-> 400])
               ELSE Append(reqs, [kind |-> "deposit", pc |-> "save",
                                  status |-> 0, amount |-> amount.v])
    /\ UNCHANGED <<fxVars, val, div, db, proc, conv>>

\* line 47: transaction.save() inserts; Cash.find() is started
DepositSave(r) ==
    /\ r \in 1..Len(reqs)
    /\ reqs[r].kind = "deposit" /\ reqs[r].pc = "save"
    /\ db' = [db EXCEPT
                 !.cash = Append(@, [type |-> "DEPOSIT",
                                     amount |-> reqs[r].amount])]
    /\ reqs' = [reqs EXCEPT ![r].pc = "find"]
    /\ UNCHANGED <<fxVars, val, div, proc, conv>>

\* lines 50-64: Cash.find() answers and the response is sent
DepositRespond(r) ==
    /\ r \in 1..Len(reqs)
    /\ reqs[r].kind = "deposit" /\ reqs[r].pc = "find"
    /\ reqs' = [reqs EXCEPT ![r] = [@ EXCEPT !.pc = "done", !.status = 201]
                                       @@ [balance |-> Balance(db.cash)]]
    /\ UNCHANGED <<fxVars, val, div, db, proc, conv>>

\* lines 73-80: the body is tested and Cash.find() is started
WithdrawBegin(amount) ==
    /\ db.pc = "on" /\ Len(reqs) < MaxCashReqs
    /\ reqs' = IF BadAmount(amount)
               THEN Append(reqs, [kind |-> "withdraw", pc |-> "done",
                                  status |-> 400])
               ELSE Append(reqs, [kind |-> "withdraw", pc |-> "find",
                                  status |-> 0, amount |-> amount.v])
    /\ UNCHANGED <<fxVars, val, div, db, proc, conv>>

\* lines 80-101: Cash.find() answers, the balance is compared with the
\* amount, the document is built and its save started
WithdrawFind(r) ==
    /\ r \in 1..Len(reqs)
    /\ reqs[r].kind = "withdraw" /\ reqs[r].pc = "find"
    /\ reqs' = IF Balance(db.cash) < reqs[r].amount
               THEN [reqs EXCEPT ![r].pc = "done", ![r].status = 400]
               ELSE [reqs EXCEPT ![r].pc = "save"]
    /\ UNCHANGED <<fxVars, val, div, db, proc, conv>>

\* line 101: transaction.save() inserts; the second Cash.find() is started
WithdrawSave(r) ==
    /\ r \in 1..Len(reqs)
    /\ reqs[r].kind = "withdraw" /\ reqs[r].pc = "save"
    /\ db' = [db EXCEPT
                 !.cash = Append(@, [type |-> "WITHDRAWAL",
                                     amount |-> reqs[r].amount])]
    /\ reqs' = [reqs EXCEPT ![r].pc = "respond"]
    /\ UNCHANGED <<fxVars, val, div, proc, conv>>

\* lines 104-118: the second Cash.find() answers and the response is sent
WithdrawRespond(r) ==
    /\ r \in 1..Len(reqs)
    /\ reqs[r].kind = "withdraw" /\ reqs[r].pc = "respond"
    /\ reqs' = [reqs EXCEPT ![r] = [@ EXCEPT !.pc = "done", !.status = 201]
                                       @@ [balance |-> Balance(db.cash)]]
    /\ UNCHANGED <<fxVars, val, div, db, proc, conv>>

NextCashRace ==
    \/ \E amount \in CashAmounts : DepositBegin(amount)
    \/ \E r \in 1..MaxCashReqs : DepositSave(r)
    \/ \E r \in 1..MaxCashReqs : DepositRespond(r)
    \/ \E amount \in CashAmounts : WithdrawBegin(amount)
    \/ \E r \in 1..MaxCashReqs : WithdrawFind(r)
    \/ \E r \in 1..MaxCashReqs : WithdrawSave(r)
    \/ \E r \in 1..MaxCashReqs : WithdrawRespond(r)

SpecCashRace == InitHold /\ [][NextCashRace]_vars

-----------------------------------------------------------------------------
(* The requests to the provider that the routes make, each with the timeout
   its call site sets, in ms; 0 is a call without a timeout (axios waits
   for the answer).  reqs holds one record per request to the server. *)

MaxProviderReqs == 2

\* GET / : apiClient.post of portfolio.js line 392 (timeout 5000, lines
\* 350-352), then convertToDKK with the axios.get of currencyConverter.js
\* lines 47-50 (timeout 3000).
\* GET /summary of the dividends route: axios.get of dividends.js lines
\* 32-34 (timeout 5000).
\* POST /add: axios.get of portfolio.js line 488 (no options), then
\* getExchangeRate and enrichPortfolioWithPrices through apiClient.
\* DELETE /:id : getExchangeRate of portfolio.js line 368 through apiClient.
ProviderCalls ==
    [valuation |-> <<5000, 3000>>,
     dividends |-> <<5000>>,
     add |-> <<0, 5000, 5000>>,
     sell |-> <<5000>>]

Routes == DOMAIN ProviderCalls

\* the request is received and its first call to the provider is made
Receive(route) ==
    /\ db.pc = "off" /\ proc.pc = "off" /\ Len(reqs) < MaxProviderReqs
    /\ reqs' = Append(reqs, [route |-> route, pc |-> "calling", call |-> 1,
                             ended |-> <<>>])
    /\ UNCHANGED <<fxVars, val, div, db, proc, conv>>

\* the current call of request r has ended: the next call is made, or the
\* response is sent after the last one
CallEnded(r, how) ==
    LET n == Len(ProviderCalls[reqs[r].route])
    IN  [reqs EXCEPT ![r].ended = Append(@, how),
                     ![r].call = IF @ < n THEN @ + 1 ELSE @,
                     ![r].pc = IF reqs[r].call < n THEN "calling"
                                                   ELSE "responded"]

\* the provider answers the current call of request r, with data or an error
ProviderAnswers(r) ==
    /\ r \in 1..Len(reqs) /\ reqs[r].pc = "calling"
    /\ reqs' = CallEnded(r, "answer")
    /\ UNCHANGED <<fxVars, val, div, db, proc, conv>>

\* the timeout of the current call of request r fires; the catch block of
\* the call site continues with its default
TimeoutFires(r) ==
    /\ r \in 1..Len(reqs) /\ reqs[r].pc = "calling"
    /\ ProviderCalls[reqs[r].route][reqs[r].call] > 0
    /\ reqs' = CallEnded(r, "timeout")
    /\ UNCHANGED <<fxVars, val, div, db, proc, conv>>

NextProvider ==
    \/ \E route \in Routes : Receive(route)
    \/ \E r \in 1..MaxProviderReqs : ProviderAnswers(r)
    \/ \E r \in 1..MaxProviderReqs : TimeoutFires(r)

SpecProvider == InitFx /\ [][NextProvider]_vars

\* an armed timeout fires; the provider is free never to answer
SpecProviderLive ==
    SpecProvider /\ \A r \in 1..MaxProviderReqs : WF_vars(TimeoutFires(r))

-----------------------------------------------------------------------------
(* The server process: the signal handlers and shutdown of index.js lines
   176-222 ("guarded"), of part_005 lines 103-126 ("plain") and of index.js
   lines 303-322 ("callback"). *)

MaxSignals == 2
MaxConnections == 2

ProcVersions == {"guarded", "plain", "callback"}

\* the process after startup: the server listens; MongoDB is connected, or
\* not when MONGODB_URI is missing or the connection failed
Running(version, mongo) ==
    [pc |-> "running", version |-> version, shuttingDown |-> FALSE,
     signals |-> 0, shutdowns |-> 0, timers |-> 0,
     server |-> "listening", connections |-> 0, callbacks |-> 0,
     mongo |-> mongo, waiting |-> 0, disconnects |-> 0, unconnected |-> 0,
     exitCode |-> -1, log |-> <<>>]

\* process.exit(code)
Exit(p, code, event) ==
    [p EXCEPT !.pc = "exited", !.exitCode = code, !.timers = 0,
              !.log = Append(@, event)]

\* a shutdown that arms no force-exit timer
StartShutdown_noTimer(p) ==
    [p EXCEPT !.shuttingDown = (p.version = "guarded"),
              !.shutdowns = @ + 1,
              !.server = IF @ = "listening" THEN "closing" ELSE @,
              !.callbacks = @ + 1,
              !.log = Append(@, "shutdown")]

\* shutdown past the guard: the force timer is armed (lines 188-191) and
\* server.close(callback) is called (line 194)
StartShutdown(p) ==
    [p EXCEPT !.shuttingDown = (p.version = "guarded"),
              !.shutdowns = @ + 1,
              !.timers = @ + 1,
              !.server = IF @ = "listening" THEN "closing" ELSE @,
              !.callbacks = @ + 1,
              !.log = Append(@, "shutdown")]

\* process.on('SIGTERM' | 'SIGINT'), lines 214-222: shutdown(signal)
Signal(sig) ==
    /\ proc.pc = "running" /\ proc.signals < MaxSignals
    /\ proc' = IF proc.version = "guarded" /\ proc.shuttingDown
               THEN [proc EXCEPT !.signals = @ + 1]
               ELSE [StartShutdown(proc) EXCEPT !.signals = @ + 1]
    /\ UNCHANGED <<fxVars, val, div, db, reqs, conv>>

\* server.on('connection'), lines 166-168: a client connects
Connect ==
    /\ proc.pc = "running" /\ proc.server = "listening"
    /\ proc.connections < MaxConnections
    /\ proc' = [proc EXCEPT !.connections = @ + 1]
    /\ UNCHANGED <<fxVars, val, div, db, reqs, conv>>

\* conn.on('close'), lines 170-173
ConnectionClosed ==
    /\ proc.pc = "running" /\ proc.connections > 0
    /\ proc' = [proc EXCEPT !.connections = @ - 1]
    /\ UNCHANGED <<fxVars, val, div, db, reqs, conv>>

\* the connection to MongoDB is lost
MongoDrop ==
    /\ proc.pc = "running" /\ proc.mongo = "connected"
    /\ proc' = [proc EXCEPT !.mongo = "disconnected"]
    /\ UNCHANGED <<fxVars, val, div, db, reqs, conv>>

\* the server emits 'close' once no connection is left: every registered
\* callback of server.close runs (lines 194-210) up to its first await
ServerClosed ==
    /\ proc.pc = "running" /\ proc.callbacks > 0
    /\ proc.server \in {"closing", "closed"} /\ proc.connections = 0
    /\ LET closed == [proc EXCEPT !.server = "closed", !.callbacks = 0,
                                  !.log = Append(@, "closed")]
       IN  proc' =
               IF proc.version = "guarded"
               THEN IF proc.mongo = "connected"
                    THEN [closed EXCEPT !.mongo = "disconnecting",
                                        !.waiting = @ + 1,
                                        !.disconnects = @ + 1,
                                        !.log = Append(@, "disconnect")]
                    ELSE Exit(closed, 0, "exit")
               ELSE [closed EXCEPT
                        !.mongo = IF @ = "connected" THEN "disconnecting"
                                                     ELSE @,
                        !.waiting = @ + proc.callbacks,
                        !.disconnects = @ + proc.callbacks,
                        !.unconnected =
                            IF proc.mongo = "connected" THEN @
                            ELSE @ + proc.callbacks,
                        !.log = Append(@, "disconnect")]
    /\ UNCHANGED <<fxVars, val, div, db, reqs, conv>>

\* mongoose.disconnect() / connection.close() settles, lines 199-208
MongoDone(ok) ==
    /\ proc.pc = "running" /\ proc.waiting > 0
    /\ proc' = IF ok \/ proc.version = "callback"
               THEN Exit([proc EXCEPT !.mongo = "closed"], 0, "exit")
               ELSE Exit(proc, 1, "error")
    /\ UNCHANGED <<fxVars, val, div, db, reqs, conv>>

\* the force timer fires, lines 188-191
ForceExit ==
    /\ proc.pc = "running" /\ proc.timers > 0
    /\ proc' = Exit(proc, 1, "forced")
    /\ UNCHANGED <<fxVars, val, div, db, reqs, conv>>

InitShutdown ==
    /\ exchangeRateCache = EmptyCache
    /\ now = StartTime
    /\ calls = [p \in Callers |-> IdleCall]
    /\ storedAt = [c \in FxCurrencies |-> 0]
    /\ lastFetch = <<>>
    /\ requests = 0
    /\ val = [pc |-> "off"]
    /\ div = [pc |-> "off"]
    /\ db = [pc |-> "off"]
    /\ reqs = <<>>
    /\ conv = [pc |-> "off"]
    /\ \E version \in ProcVersions, mongo \in {"connected", "disconnected"} :
           proc = Running(version, mongo)

NextShutdown ==
    \/ \E sig \in {"SIGTERM", "SIGINT"} : Signal(sig)
    \/ Connect
    \/ ConnectionClosed
    \/ MongoDrop
    \/ ServerClosed
    \/ \E ok \in BOOLEAN : MongoDone(ok)
    \/ ForceExit

SpecShutdown == InitShutdown /\ [][NextShutdown]_vars

\* the timer of setTimeout fires once it is armed and not cleared
SpecShutdownLive == SpecShutdown /\ WF_vars(ForceExit)

-----------------------------------------------------------------------------
(* Claims about the dividend summary, checked under SpecSummary *)

SummaryDone == div.pc = "done"

\* the estimator's annual amount per share for holding k
AnnualPerShare(k) ==
    IF div.version = 1
    THEN calculateRegularDividend(div.lookups[div.portfolio[k].ticker]).value
    ELSE calculateRegularDividendV2(div.lookups[div.portfolio[k].ticker].first)

\* the rate the summary applies to holding k's currency, in 1/100
HoldingRate(k) ==
    LET c == div.portfolio[k].currency
    IN  IF c \in DOMAIN EXCHANGE_RATES THEN EXCHANGE_RATES[c]
        ELSE EXCHANGE_RATES["USD"]

\* annual amount per share times shares of holding k at its rate, rounded
\* to 2 decimals
HoldingContribution(k) ==
    LET amount == AnnualPerShare(k) * div.portfolio[k].shares
        whole == amount \div 1000000
        part == amount % 1000000
    IN  whole * HoldingRate(k) + RoundDiv(part * HoldingRate(k), 1000000)

RECURSIVE SumContributions(_)
\* the contributions of the first n holdings with a non-zero estimate
SumContributions(n) ==
    IF n = 0 THEN 0
    ELSE SumContributions(n - 1)
             + (IF AnnualPerShare(n) # 0 THEN HoldingContribution(n) ELSE 0)

\* the total is the sum of the converted contributions, the monthly average
\* is the total / 12 rounded to 2 decimals, and a holding with estimate 0
\* has no expected-dividend entry
SummaryTotalsAreSums ==
    SummaryDone =>
        /\ div.res.estimatedAnnualDividend
               = SumContributions(Len(div.portfolio))
        /\ div.res.monthlyAverage
               = RoundDiv(div.res.estimatedAnnualDividend, 12)
        /\ \A k \in 1..Len(div.portfolio) :
               AnnualPerShare(k) = 0 =>
                   \A j \in 1..Len(div.res.expected) :
                       div.res.expected[j].ticker # div.portfolio[k].ticker
                           \/ \E h \in 1..Len(div.portfolio) :
                                  /\ AnnualPerShare(h) # 0
                                  /\ div.portfolio[h].ticker
                                         = div.portfolio[k].ticker

\* one holding of 5 USD shares with a declared rate of 0.96
IsSummaryExample ==
    /\ div.portfolio = <<[ticker |-> "AAPL", shares |-> 50, currency |-> "USD"]>>
    /\ div.version = 1
    /\ div.lookups["AAPL"] = Declared096

\* C10: estimatedAnnualTotal is the sum, over holdings with a non-zero
\* estimate, of convert(annual amount per share x shares, holding currency);
\* monthlyAverage is that total / 12 rounded to 2 decimals; a holding whose
\* estimate is 0 adds no expected-dividend entry; and 5 shares with declared
\* rate 0.96 at the USD rate 6.8 give 32.64 and 2.72.
C10_SummaryTotalsAndExample ==
    /\ SummaryTotalsAreSums
    /\ (SummaryDone /\ IsSummaryExample) =>
           /\ div.res.estimatedAnnualDividend = 3264
           /\ div.res.monthlyAverage = 272

\* the dividend lookup of holding k was answered
LookupSucceeded(k) ==
    LET lookup == div.lookups[div.portfolio[k].ticker]
    IN  IF div.version = 1 THEN lookup.kind = "ok"
        ELSE lookup.first.kind = "ok"

RECURSIVE SumSucceeded(_)
\* the contributions of the first n holdings whose lookup succeeded
SumSucceeded(n) ==
    IF n = 0 THEN 0
    ELSE SumSucceeded(n - 1)
             + (IF LookupSucceeded(n) THEN HoldingContribution(n) ELSE 0)

\* C11: a failed dividend lookup for one holding contributes 0 and does not
\* abort the others: the summary is answered, estimatedAnnualTotal is the
\* sum of the contributions of the holdings whose lookup succeeded, and the
\* failed holding has no expected entry.
C11_FailedLookupContributesZero ==
    SummaryDone =>
        /\ div.res.estimatedAnnualDividend = SumSucceeded(Len(div.portfolio))
        /\ div.res.monthlyAverage
               = RoundDiv(SumSucceeded(Len(div.portfolio)), 12)
        /\ \A k \in 1..Len(div.portfolio) :
               ~LookupSucceeded(k) =>
                   \A j \in 1..Len(div.res.expected) :
                       div.res.expected[j].ticker # div.portfolio[k].ticker

\* C11 witness: of two holdings the first lookup succeeded with a positive
\* contribution and the second failed, and the total is the first's
C11_Witness ==
    /\ SummaryDone
    /\ Len(div.portfolio) = 2
    /\ LookupSucceeded(1) /\ ~LookupSucceeded(2)
    /\ HoldingContribution(1) > 0
    /\ div.res.estimatedAnnualDividend = HoldingContribution(1)

\* the tickers of the holdings
HeldTickers == {div.portfolio[k].ticker : k \in 1..Len(div.portfolio)}

\* the stored EXPECTED records that do not stem from a holding
ManualExpected ==
    SelectSeq(div.before,
              LAMBDA r : r.status = "EXPECTED" /\ r.ticker \notin HeldTickers)

RECURSIVE SumManualAmounts(_)
\* the amounts of the first n manually entered expected records
SumManualAmounts(n) ==
    IF n = 0 THEN 0
    ELSE SumManualAmounts(n - 1) + ManualExpected[n].totalAmount

\* C12: manually entered expected dividends are merged additively into the
\* totals: the reported expected total is the sum of the estimates derived
\* from holdings plus the amount of every stored manual EXPECTED record.
C12_ManualExpectedInTotal ==
    SummaryDone =>
        div.res.expectedTotal
            = SumContributions(Len(div.portfolio))
                  + SumManualAmounts(Len(ManualExpected))

\* C13: computing the dividend summary has no side effect on stored
\* records: the stored dividend records and all their fields are the same
\* after a summary request as before it.
C13_SummaryLeavesRecordsUnchanged ==
    SummaryDone => div.store = div.before

-----------------------------------------------------------------------------
(* Claims about the holdings, checked under SpecHold *)

\* the stored holding with this id, when there is one
HoldingOf(id) == db.holdings[FindById(db.holdings, id)]

\* the last request was a sale that was answered with 200
SaleSucceeded == db.last.op = "sell" /\ db.last.status = 200

\* C14: after any sequence of add, update and sell requests executed one at
\* a time every stored holding has shares > 0; a successful partial sale has
\* reduced the holding's shares by exactly the sold amount, and a sale of all
\* its shares has removed the holding.
C14_SharesStayPositive ==
    db.pc = "on" =>
        /\ \A k \in 1..Len(db.holdings) : db.holdings[k].shares > 0
        /\ SaleSucceeded =>
               IF db.last.sold = db.last.had
               THEN FindById(db.holdings, db.last.id) = 0
               ELSE /\ FindById(db.holdings, db.last.id) > 0
                    /\ HoldingOf(db.last.id).shares
                           = db.last.had - db.last.sold
                    /\ db.last.sold > 0

\* C14 witness: 0.0001 of a holding's 0.0002 shares have been sold and
\* 0.0001 remain
C14_Witness ==
    /\ db.pc = "on" /\ SaleSucceeded
    /\ db.last.had = 4 /\ db.last.sold = 2
    /\ FindById(db.holdings, db.last.id) > 0
    /\ HoldingOf(db.last.id).shares = 2

-----------------------------------------------------------------------------
(* Claims about the allocation, checked under SpecVal *)

AllocationDone == val.pc = "done" /\ val.route = "allocation"

RECURSIVE SumReportedValue(_)
\* the reported values of the first n positions, in 1/1000
SumReportedValue(n) ==
    IF n = 0 THEN 0 ELSE SumReportedValue(n - 1) + ReportedValue(n)

\* p (in 1/100 of a percent) is value / total x 100 to 2 decimals, that
\* is 2 |10000 value - p total| <= total, with total split at 10000 so that
\* the products stay small
IsShareOfTotal(p, value, total) ==
    LET A == value - p * (total \div 10000)
        B == p * (total % 10000)
    IN  /\ p >= 0 /\ p <= 10000
        /\ A >= -2000 /\ A <= 12000
        /\ 2 * Abs(10000 * A - B) <= total

\* C15: allocation percentages equal position value / total value x 100
\* (to 2 decimals) when total value > 0 and are 0 for every position
\* otherwise; the list is ordered by non-increasing percentage, and positions
\* with equal percentage keep their original holding order.
C15_AllocationPercentages ==
    AllocationDone =>
        LET n == Len(val.stocks)
            total == SumReportedValue(n)
            out == val.allocation
        IN  /\ Len(out) = n
            /\ {out[j].holding : j \in 1..n} = 1..n
            /\ \A j \in 1..n :
                   IF total > 0
                   THEN IsShareOfTotal(out[j].percentage,
                                       ReportedValue(out[j].holding), total)
                   ELSE out[j].percentage = 0
            /\ \A i, j \in 1..n :
                   i < j =>
                       /\ out[i].percentage >= out[j].percentage
                       /\ out[i].percentage = out[j].percentage
                              => out[i].holding < out[j].holding

-----------------------------------------------------------------------------
(* Claims about convertToDKK, checked under SpecConv *)

\* the amount is missing, zero or negative
NonPositive(amount) == amount = Undefined \/ amount.v <= 0

\* C16: convertToDKK called with an amount that is zero, negative or missing
\* returns 0 for every currency, raises no error, issues no provider request
\* and leaves the exchange-rate cache unchanged: the call is complete in its
\* first step with result 0, and nothing of the cache has changed.
C16_NothingToConvertGivesZero ==
    [][(conv.pc = "idle" /\ conv'.pc # "idle" /\ NonPositive(conv'.amount))
          => /\ conv'.pc = "done"
             /\ conv'.result = Num(0)
             /\ requests' = requests
             /\ calls' = calls
             /\ exchangeRateCache' = exchangeRateCache]_vars

\* C16 witness: convertToDKK(-5, 'USD') has returned 0 on an empty cache and
\* no request has been issued
C16_Witness ==
    /\ conv.pc = "done"
    /\ conv.amount = Num(-5000) /\ conv.cur = "USD"
    /\ conv.result = Num(0)
    /\ requests = 0 /\ exchangeRateCache = EmptyCache

\* C17 as stated: for any amount, convertToDKK(amount, 'DKK') equals the
\* amount rounded to 2 decimals.
C17_BaseCurrencyIsIdentity ==
    (conv.pc = "done" /\ conv.cur = "DKK" /\ conv.amount # Undefined)
        => conv.result = Num(RoundDiv(conv.amount.v, 10))

\* C17 amended: for any amount > 0, convertToDKK(amount, 'DKK') equals the
\* amount rounded to 2 decimals; for a zero or negative amount it is 0.
C17_BaseCurrencyRoundsPositive ==
    (conv.pc = "done" /\ conv.cur = "DKK" /\ conv.amount # Undefined)
        => conv.result = IF conv.amount.v > 0
                         THEN Num(RoundDiv(conv.amount.v, 10))
                         ELSE Num(0)

\* C17 witness: convertToDKK(12.346, 'DKK') has returned 12.35
C17_Witness ==
    /\ conv.pc = "done" /\ conv.cur = "DKK"
    /\ conv.amount = Num(12346)
    /\ conv.result = Num(1235)

-----------------------------------------------------------------------------
(* Claims about the shutdown, checked under SpecShutdown *)

Exited == proc.pc = "exited"

\* C18: after SIGTERM or SIGINT the HTTP server is closed first and MongoDB
\* is disconnected only after the server has finished closing, and only if
\* it is connected; the process then exits with code 0, and a further signal
\* received while shutting down starts no second shutdown.
C18_GracefulShutdownOrder ==
    proc.pc # "off" =>
        /\ proc.disconnects > 0 => proc.server = "closed"
        /\ proc.unconnected = 0
        /\ (Exited /\ proc.exitCode = 0) => proc.server = "closed"
        /\ (Exited /\ proc.log[Len(proc.log)] = "exit") => proc.exitCode = 0
        /\ proc.shutdowns <= 1

\* C19: once SIGTERM or SIGINT has been received the process eventually
\* exits, even if the HTTP server never finishes closing or the MongoDB
\* disconnect never completes; unless both have completed, it is the force
\* timer that ends the process, with code 1.
C19_ShutdownAlwaysEnds ==
    /\ (proc.signals > 0) ~> Exited
    /\ [](Exited =>
             \/ proc.exitCode = 1
             \/ /\ proc.server = "closed"
                /\ proc.waiting > 0 => proc.mongo = "closed")

\* C19 witness: the server never finished closing (a connection stayed open)
\* and the force timer has ended the process with code 1
C19_Witness ==
    /\ Exited /\ proc.exitCode = 1
    /\ proc.server = "closing" /\ proc.connections > 0
    /\ proc.log[Len(proc.log)] = "forced"

-----------------------------------------------------------------------------
(* Claims about concurrent sales, checked under SpecSell *)

RECURSIVE SumSellShares(_)
\* the shares of the first n Transaction documents of type SELL
SumSellShares(n) ==
    IF n = 0 THEN 0
    ELSE SumSellShares(n - 1)
             + (IF db.transactions[n].type = "SELL"
                THEN db.transactions[n].shares ELSE 0)

RECURSIVE SumSaleShares(_)
\* the shares credited by the first n Cash documents of type SALE
SumSaleShares(n) ==
    IF n = 0 THEN 0
    ELSE SumSaleShares(n - 1)
             + (IF db.cash[n].type = "SALE" THEN db.cash[n].shares ELSE 0)

\* C20: under any interleaving of concurrent sell requests on one holding
\* the shares recorded as sold, in SELL transactions and in SALE cash
\* credits, never exceed the shares the holding had before the requests.
C20_NeverSoldMoreThanHeld ==
    db.pc = "on" =>
        /\ SumSellShares(Len(db.transactions)) <= SellableShares
        /\ SumSaleShares(Len(db.cash)) <= SellableShares

-----------------------------------------------------------------------------
(* Claims about the dividend status, checked under SpecStatus *)

\* the DEPOSIT documents written for the dividend with this id
DepositsOf(id) ==
    {k \in 1..Len(db.cash) :
        db.cash[k].type = "DEPOSIT" /\ db.cash[k].of = id}

\* C21: for any sequence of status updates on one dividend record the cash
\* ledger holds at most one DEPOSIT for that record, whether it is set to
\* RECEIVED twice or switched between EXPECTED and RECEIVED.
C21_AtMostOneDepositPerDividend ==
    div.pc = "status" =>
        \A id \in DividendIds : Cardinality(DepositsOf(id)) <= 1

-----------------------------------------------------------------------------
(* Claims about the cash ledger, checked under SpecCashRace and SpecCash *)

\* C22: under any interleaving of concurrent deposit and withdraw requests
\* the cash balance, deposits + sales - withdrawals, is never negative: a
\* withdrawal is recorded only if the balance at the moment it is recorded
\* covers its amount.
C22_BalanceNeverNegativeConcurrent ==
    /\ db.pc = "on" => Balance(db.cash) >= 0
    /\ \A r \in 1..Len(reqs) :
           reqs[r].pc = "done" /\ reqs[r].status = 201 =>
               reqs[r].balance >= 0

\* C23: after any sequence of deposit, withdraw, sale and add-holding
\* requests with deductFromCash the cash balance is never negative: a
\* purchase whose cost exceeds the current balance records no WITHDRAWAL.
C23_PurchaseNeverOverdraws ==
    (db.pc = "on" /\ reqs = <<>>) => Balance(db.cash) >= 0

-----------------------------------------------------------------------------
(* Claims about failed sales, checked under SpecHold *)

\* the step is a DELETE /:id request answered with an error status
SellFailed ==
    /\ db.pc = "on" /\ db'.ops = db.ops + 1
    /\ db'.last.op = "sell" /\ db'.last.status >= 400

\* C24: a sell request that ends with an error response (holding not
\* found, more shares than owned, or a validation failure of a record it
\* writes) leaves the cash ledger, the transaction log and the holdings as
\* they were before the request.
C24_FailedSaleWritesNothing ==
    [][SellFailed =>
           /\ db'.cash = db.cash
           /\ db'.transactions = db.transactions
           /\ db'.holdings = db.holdings]_vars

-----------------------------------------------------------------------------
(* Claims about repeated failures, checked under SpecFxLog *)

\* rates[c] is the static value that a failed request for c stored, and the
\* cache has not been cleared since
FallbackStored(c) ==
    /\ c \in DOMAIN lastFetch
    /\ lastFetch[c].outcome \in FailedOutcomes
    /\ exchangeRateCache.rates[c] = StaticFallback(c)

\* the call of p was made less than CACHE_DURATION after the timestamp that
\* the failed request stored
WithinWindow(p) ==
    calls[p].now < lastFetch[calls[p].cur].stamp + CACHE_DURATION

\* a step issues at most one request, and only as a call passes from its
\* cache test to its await
OneRequestPerCall ==
    requests' # requests =>
        /\ requests' = requests + 1
        /\ \E p \in Callers :
               /\ calls[p].pc = "idle" /\ calls'[p].pc = "await"
               /\ \A q \in Callers \ {p} : calls'[q] = calls[q]

-----------------------------------------------------------------------------
(* Claims about concurrent calls, checked under SpecFxRace *)

\* the completed call of p returned the provider's rate for its currency or
\* the static value for its currency
OwnRate(p) ==
    calls[p].result \in {Num(LiveRateOf(calls[p].cur)),
                         StaticFallback(calls[p].cur)}

\* a reader that finds a rate in the cache finds its timestamp with it
EntryWhole ==
    (\E c \in FxCurrencies : exchangeRateCache.rates[c] # Undefined) =>
        exchangeRateCache.lastUpdate >= StartTime

\* C26: under any interleaving of concurrent getExchangeRate calls, with
\* or without an interleaved clearCache, every call completes without error
\* and returns a rate obtained for its own currency (live or static
\* fallback); no reader sees a cache entry updated only in part; and the
\* number of provider requests never exceeds the number of calls.
C26_ConcurrentCallsReturnOwnRate ==
    /\ [](\A p \in Callers :
              calls[p].pc = "done" => ~calls[p].threw /\ OwnRate(p))
    /\ []EntryWhole
    /\ [][OneRequestPerCall]_vars

-----------------------------------------------------------------------------
(* Claims about the currency of a valuation, checked under SpecVal *)

\* the currency the holding is valued in: the recorded one, and without one
\* the currency its ticker suffix names
ValuationCurrency(k) ==
    IF val.stocks[k].currency # "" THEN val.stocks[k].currency
    ELSE getCurrencyFromTicker(val.stocks[k].ticker)

\* the current price of position k in base currency as the response gives it
ReportedPrice(k) ==
    IF val.version = 1 THEN val.body[k].currentPriceDKK
    ELSE val.body[k].currentPrice

\* C27: in valuation the per-share cost basis and the current price of a
\* holding are both converted with the same currency: the holding's
\* recorded currency when one is stored, and the currency of the ticker
\* suffix only when none is stored.
C27_OneCurrencyPerHolding ==
    (ValDone /\ Quoted /\ val.route = "list") =>
        \A k \in 1..Len(val.stocks) :
            LET c == ValuationCurrency(k)
                price == convertToDKK(QuotePrice(val.batch.prices,
                                                 val.stocks[k].ticker),
                                      c, val.fx)
                basis == convertToDKK(val.stocks[k].buyPrice, c, val.fx)
                sh == val.stocks[k].shares
            IN  /\ ReportedPrice(k) = price
                /\ val.version = 1 => val.body[k].buyPriceDKK = basis
                /\ val.version = 2 =>
                       val.body[k].gain
                           = ToCents(Times(price, sh) - Times(basis, sh))

-----------------------------------------------------------------------------
(* Claims about the provider timeouts, checked under SpecProviderLive *)

\* request r has been received
Received(r) == r <= Len(reqs)

\* request r has been answered
Responded(r) == r <= Len(reqs) /\ reqs[r].pc = "responded"

\* C28: every provider call is bounded by a client-side timeout, so every
\* request that needs the provider (valuation, dividend summary, add
\* holding, sell) eventually produces a response even if the provider never
\* answers.
C28_EveryRequestResponds ==
    \A r \in 1..MaxProviderReqs : Received(r) ~> Responded(r)

-----------------------------------------------------------------------------
(* Claims about the rounding of the estimate, checked under SpecEst *)

\* a figure in 1/100000 that has no fifth decimal
HasFourDecimals(x) == x % 10 = 0

\* C29: every per-share estimate the estimator returns, whichever method
\* produced it (declared rate, trailing yield, outlier-filtered history or
\* quarterly fallback), is rounded to 4 decimal places.
C29_EstimateHasFourDecimals ==
    EstDone => HasFourDecimals(div.result.value)

-----------------------------------------------------------------------------
(* Claims about the quarterly fallback, checked under SpecEst *)

\* no declared rate or trailing yield applies, at least 4 payments exist and
\* fewer than 2 of them fall in the trailing 12 months
FallbackCase ==
    /\ EstDone /\ ~HasRate /\ ~HasYield
    /\ PaymentCount >= 4 /\ Len(WindowAmounts) < 2

\* the amounts of the last 4 payments
LastFour ==
    LET items == div.response.dividends.items
    IN  [k \in 1..4 |-> items[Len(items) - 4 + k].amount]

\* twice the median of the last 4 payments: the sum of the two middle ones
TwiceMedian ==
    LET sorted == SortSeq(LastFour, LAMBDA a, b : a < b)
    IN  sorted[2] + sorted[3]

\* the payments that are not discarded: those below 2.5 times the median
Remaining == SelectSeq(LastFour, LAMBDA d : 4 * d < 5 * TwiceMedian)

RECURSIVE SumRemaining(_)
SumRemaining(n) ==
    IF n = 0 THEN 0 ELSE SumRemaining(n - 1) + Remaining[n]

\* C30 as stated: in the fallback case the estimator returns exactly
\* sum(remaining) x 4 / count(remaining) if at least 3 of the last 4
\* payments remain after discarding those >= 2.5 x their median, and 0
\* otherwise.
C30_QuarterlyFallbackExact ==
    FallbackCase =>
        IF Len(Remaining) >= 3
        THEN div.result.value * Len(Remaining)
                 = 4 * SumRemaining(Len(Remaining))
        ELSE div.result.value = 0

\* C30 amended: in the fallback case the estimator returns
\* sum(remaining) x 4 / count(remaining) rounded to 4 decimal places if at
\* least 3 of the last 4 payments remain after discarding those >= 2.5 x
\* their median, and 0 otherwise.
C30_QuarterlyFallbackRounded ==
    FallbackCase =>
        IF Len(Remaining) >= 3
        THEN /\ HasFourDecimals(div.result.value)
             /\ 2 * Abs(div.result.value * Len(Remaining)
                            - 4 * SumRemaining(Len(Remaining)))
                    <= 10 * Len(Remaining)
             /\ div.result.method = "quarterly-fallback"
        ELSE div.result.value = 0

\* C30 witness: of the last 4 payments 0.12344, 0.12344, 0.12344 and 25,
\* all older than a year, the 25 was discarded and 0.4938 returned
C30_Witness ==
    /\ FallbackCase
    /\ LastFour = <<12344, 12344, 12344, 2500000>>
    /\ Len(WindowAmounts) = 0
    /\ Len(Remaining) = 3
    /\ div.result = Estimate(49380, "quarterly-fallback")

====
